---- MODULE Spec2Model ----
(***************************************************************************)
(* StorageNATS: one table instance with its shared connection, event loop, *)
(* consumer-buffer pool, three background tasks (connection, streaming,    *)
(* looping), direct reads and shutdown.                                    *)
(* Source: src/src/Storages/NATS/StorageNATS.cpp, NATSHandler.h.           *)
(* The BackgroundSchedulePool tasks, NATSHandler::startLoop, the           *)
(* connection manager and NATSSource are not part of the sources at hand;  *)
(* they are modelled from the specification text.                          *)
(***************************************************************************)
EXTENDS Integers, Sequences, FiniteSets, TLC

\* ---------------------------------------------------------------- bounds
\* nats_num_consumers of the table (StorageNATS.cpp:59)
NumConsumers == 1
\* cap of the counter of consecutive back-off passes
MaxBackoff == 5
\* clock resolution: ticks of the clock within MAX_THREAD_WORK_DURATION_MS
TimeSteps == 1
\* number of tables in the catalog besides the table whose dependencies are checked
NumTables == 2
\* longest input, in bytes, handed to the CSV2 segmentation engine
MaxInput == 5

\* ----------------------------------------------------- program constants
RESCHEDULE_MS == 500
BACKOFF_TRESHOLD == 8000
MAX_THREAD_WORK_DURATION_MS == 60000
\* min_rows of the registered CSV2 segmentation engine (CSV2RowInputFormat.cpp:591)
MIN_ROWS == 3
RUN == 1
STOP == 2

\* ------------------------------------------------------------ name sets
Tasks == {"conn", "stream", "loop"}
Readers == {"r1"}
Pipes == Readers \cup {"stream"}
Buffers == 1..NumConsumers

VARIABLES
    is_attach,              \* constructor argument is_attach_
    pc_st,                  \* constructor / startup() position
    st_i,                   \* startup(): loop index i
    connected,              \* connection->isConnected()
    shutdown_called,
    num_created_consumers,
    buffers,                \* free collection (vector, back = last)
    semaphore,              \* count of the Poco::Semaphore
    subscribed,             \* buffers whose subscription is alive
    pend,                   \* per pipeline: sources that have not asked for a buffer yet
    take,                   \* per pipeline: sources past the semaphore, before the pop
    held,                   \* per pipeline: bag of leased buffers (buffer -> count)
    readers_count,
    mv_attached,
    milliseconds_to_wait,
    nBackoff,               \* history: consecutive back-off passes since the last reset
    loop_state,             \* NATSHandler::loop_state
    loop_running,           \* NATSHandler::loop_running
    active,                 \* per task: not deactivated
    sched,                  \* per task: scheduled for execution
    pc_conn,                \* connection task: "idle" or "run" (inside connectionFunc)
    task_mutex,             \* holder of StorageNATS::task_mutex, or "free"
    loop_mutex,             \* holder of StorageNATS::loop_mutex, or "free"
    pc_stream,              \* streamingToViewsFunc / streamToViews position
    pc_loop,                \* loopingFunc position
    pc_sd,                  \* shutdown() position
    sd_i,                   \* shutdown(): index of the final popReadBuffer loop
    sd_log,                 \* history: deactivations shutdown() has completed, in order
    rd,                     \* per reader: position and locals of read() and its pipeline
                            \* (down, history: the call found the connection down at line 266)
    pass,                   \* history: how the last streamToViews call of the run ended, or why it made none
    idleLoop,               \* history: loop seen running idle before the current streaming run
    duration,               \* streamingToViewsFunc: milliseconds since start_time at the end of the last pass
    tables,                 \* DatabaseCatalog: what tryGetTable finds under each table id
    dependencies,           \* DatabaseCatalog: getDependencies of each table id, in iteration order
    dep_stack,              \* checkDependencies: the call stack, innermost call last
    dep_result,             \* checkDependencies: value returned by the outermost call, or "running"
    in_data,                \* fileSegmentationEngineCSV2Impl: the bytes left in the ReadBuffer
    csv_call,               \* fileSegmentationEngineCSV2Impl: arguments, setting and buffer size
    pos,                    \* fileSegmentationEngineCSV2Impl: pos, as an offset from in.position()
    quotes,
    need_more_data,
    number_of_rows,
    pc_csv,                 \* fileSegmentationEngineCSV2Impl: position
    row_ends                \* history: the offsets at which a row was counted

vars == <<is_attach, pc_st, st_i, connected, shutdown_called, num_created_consumers,
          buffers, semaphore, subscribed, pend, take, held, readers_count, mv_attached,
          milliseconds_to_wait, nBackoff, loop_state, loop_running, active, sched,
          task_mutex, loop_mutex, pc_conn, pc_stream, pc_loop, pc_sd, sd_i, sd_log,
          rd, pass, idleLoop, duration, tables, dependencies, dep_stack, dep_result,
          in_data, csv_call, pos, quotes, need_more_data, number_of_rows, pc_csv, row_ends>>

\* the variables of the storage
storageV == <<is_attach, pc_st, st_i, connected, shutdown_called, num_created_consumers,
              buffers, semaphore, subscribed, pend, take, held, readers_count, mv_attached,
              milliseconds_to_wait, nBackoff, loop_state, loop_running, active, sched,
              task_mutex, loop_mutex, pc_conn, pc_stream, pc_loop, pc_sd, sd_i, sd_log,
              rd, pass, idleLoop, duration>>
\* the variables of checkDependencies and of the CSV2 segmentation engine
depV == <<tables, dependencies, dep_stack, dep_result>>
csvV == <<in_data, csv_call, pos, quotes, need_more_data, number_of_rows, pc_csv, row_ends>>

\* ------------------------------------------------------------- helpers
Min(a, b) == IF a < b THEN a ELSE b

RECURSIVE Pow2(_)
Pow2(n) == IF n = 0 THEN 1 ELSE 2 * Pow2(n - 1)

EmptyBag == [b \in Buffers |-> 0]

RECURSIVE SumOver(_, _)
SumOver(f, S) == IF S = {} THEN 0
                 ELSE LET x == CHOOSE y \in S : TRUE IN f[x] + SumOver(f, S \ {x})

\* number of leases of buffer b over all pipelines
Leases(b) == SumOver([p \in Pipes |-> held[p][b]], Pipes)
\* number of leased buffers of pipeline p
HeldCount(p) == SumOver(held[p], Buffers)
\* number of occurrences of b in the free collection
FreeCount(b) == Cardinality({i \in 1..Len(buffers) : buffers[i] = b})


\* ------------------------------------------------- buffer pool primitives
\* mutant: the buffer is not appended
PushBackLost(bufs, b) == bufs
\* buffers.push_back(buffer)                       (pushReadBuffer)
PushBack(bufs, b) == Append(bufs, b)
\* buffers.back()                                  (popReadBuffer)
Back(bufs) == bufs[Len(bufs)]
\* mutant: the element taken is left in the collection
PopBackKeeping(bufs) == bufs
\* buffers.pop_back()                              (popReadBuffer)
PopBack(bufs) == SubSeq(bufs, 1, Len(bufs) - 1)

\* all leased buffers of pipeline p pushed back, one pushReadBuffer each
RECURSIVE PushAll(_, _, _)
PushAll(bufs, bag, S) ==
    IF S = {} THEN bufs
    ELSE LET b == CHOOSE x \in S : TRUE
         IN PushAll(IF bag[b] > 0 THEN PushBack(bufs, b) ELSE bufs,
                    [bag EXCEPT ![b] = IF @ > 0 THEN @ - 1 ELSE 0],
                    IF bag[b] > 1 THEN S ELSE S \ {b})

\* ------------------------------------------- background task primitives
\* a run of the task is in progress (a run of connectionFunc is a single step)
Executing(t) == CASE t = "conn"   -> pc_conn # "idle"
                  [] t = "stream" -> pc_stream # "idle"
                  [] t = "loop"   -> pc_loop # "idle"

\* task->activateAndSchedule()
Activated(a, t) == [a EXCEPT ![t] = TRUE]
Scheduled(s, t) == [s EXCEPT ![t] = TRUE]
\* task->scheduleAfter(ms): no effect on a deactivated task
ScheduledAfter(s, a, t) == [s EXCEPT ![t] = @ \/ a[t]]
\* task->deactivate(): returns once no run of the task is executing
CanDeactivate(t) == ~Executing(t)
Deactivated(a, t) == [a EXCEPT ![t] = FALSE]
Unscheduled(s, t) == [s EXCEPT ![t] = FALSE]

\* mutant: a failed try_lock skips the deactivation even when wait is set
DeactivateSkipsIgnoringWait(wait, mutex_free) == ~mutex_free
\* deactivateTask(task, wait, stop_loop): the deactivation is skipped when
\* try_lock fails and wait is false
DeactivateSkips(wait, mutex_free) == ~mutex_free /\ ~wait

\* connection->reconnect(): true at once when connected, else the attempt's outcome
Reconnect(is_connected, attempt_ok) == is_connected \/ attempt_ok

\* mutant: the delay is doubled without the threshold test
BackoffUncapped(ms) == ms * 2
\* streamingToViewsFunc: "if (milliseconds_to_wait < BACKOFF_TRESHOLD) milliseconds_to_wait *= 2"
Backoff(ms) == IF ms < BACKOFF_TRESHOLD THEN ms * 2 ELSE ms

\* mutant: the mv_attached test is missing
ReadCheckIgnoringViews(n_created, direct_select, views_attached) ==
    IF n_created = 0 THEN "empty"
    ELSE IF ~direct_select THEN "QUERY_NOT_ALLOWED"
    ELSE "pass"
\* mutant: the stream_like_engine_allow_direct_select test is missing
ReadCheckIgnoringSetting(n_created, direct_select, views_attached) ==
    IF n_created = 0 THEN "empty"
    ELSE IF views_attached THEN "QUERY_NOT_ALLOWED"
    ELSE "pass"
\* mutant: neither the setting nor mv_attached is tested
ReadCheckNone(n_created, direct_select, views_attached) ==
    IF n_created = 0 THEN "empty" ELSE "pass"
\* read(): the checks before any state is touched
ReadCheck(n_created, direct_select, views_attached) ==
    IF n_created = 0 THEN "empty"
    ELSE IF ~direct_select THEN "QUERY_NOT_ALLOWED"
    ELSE IF views_attached THEN "QUERY_NOT_ALLOWED"
    ELSE "pass"

\* popReadBuffer(timeout) is called by the sources with the wait of their settings and by
\* popReadBuffer() with zero
Timeouts == {0, RESCHEDULE_MS}

\* mutant: the two branches are exchanged, zero is tried and any other timeout waits
PopWaitExchanged(timeout, sem) ==
    IF timeout = 0
    THEN IF sem > 0 THEN "take" ELSE "null"
    ELSE IF sem > 0 THEN "take" ELSE "block"
\* mutant: zero is handed to tryWait like any other timeout
PopWaitTryOnly(timeout, sem) == IF sem > 0 THEN "take" ELSE "null"
\* popReadBuffer(timeout), lines 390-396: semaphore.wait() when the timeout is zero,
\* else tryWait(timeout); the outcome for the semaphore count found
PopWait(timeout, sem) ==
    IF timeout = 0
    THEN IF sem > 0 THEN "take" ELSE "block"
    ELSE IF sem > 0 THEN "take" ELSE "null"

\* mutant: the semaphore is not signaled
SemaphoreSetLost(sem) == sem
\* mutant: the semaphore is signaled twice for one buffer
SemaphoreSetTwice(sem) == sem + 2
\* pushReadBuffer, line 377: semaphore.set()
SemaphoreSet(sem) == sem + 1

\* mutant: a failed creation is skipped whether attaching or not
CreateFailedAlwaysSkipped(attach) == "skip"
\* startup(), lines 325-330: catch (...) { if (!is_attach) throw; tryLogCurrentException }
CreateFailed(attach) == IF attach THEN "skip" ELSE "throw"

\* mutant: a failed connect() is rethrown whether attaching or not
ConstructedNeverAttaching(connect_ok, attach) == IF connect_ok THEN "new" ELSE "ctor_failed"
\* constructor, lines 92-103: a failed connect() is logged, and rethrown if (!is_attach)
Constructed(connect_ok, attach) == IF connect_ok \/ attach THEN "new" ELSE "ctor_failed"

\* streamToViews, lines 579-603: which branch the pass takes after deactivateTask
PassKind(is_connected, is_shutdown, attempt_ok) ==
    IF is_connected THEN "up"
    ELSE IF is_shutdown THEN "shutdown"
    ELSE IF attempt_ok THEN "restored"
    ELSE "down"

\* mutant: the loop over the sources runs in every branch
IterateLoopAlways(is_connected, n_created) == n_created
\* streamToViews, lines 594-603: number of iterateLoop() calls of the pass
IterateLoopCalls(is_connected, n_created) == IF is_connected THEN n_created ELSE 0

\* mutant: the connection is not tested, the section is entered whenever there are views
StreamingSectionIgnoringConnection(has_views, nats_connected) == has_views
\* streamingToViewsFunc, line 462: if (dependencies_count && nats_connected)
StreamingSection(has_views, nats_connected) == has_views /\ nats_connected

\* mutant: the flag is left as it is at the end of the run
MvAttachedKept == mv_attached
\* streamingToViewsFunc, line 505: mv_attached.store(false)
MvAttachedAtEnd == FALSE

\* mutant: the lock is taken without waiting for its holder
LockGuardNoWait(mutex) == TRUE
\* std::lock_guard lock(loop_mutex), lines 181 and 261: returns once the mutex is free
LockGuard(mutex) == mutex = "free"

\* mutant: every created buffer is unsubscribed, leased or not
UnsubscribeAllCreated(subs, bufs, drop) == IF drop THEN {} ELSE subs
\* shutdown(), lines 352-356: if (drop_table) for (auto & buffer : buffers)
\* buffer->unsubscribe(); the subscriptions left alive
Unsubscribe(subs, bufs, drop) == IF drop THEN subs \ {bufs[i] : i \in 1..Len(bufs)} ELSE subs

\* value of the history variable pass outside a pass
NoPass == [kind |-> "none", ret |-> FALSE, iter |-> 0, empties |-> 0]
\* value of pass after an exception has reached the catch block of streamingToViewsFunc
ExceptionPass == [kind |-> "exception", ret |-> FALSE, iter |-> 0, empties |-> 0]
\* value of pass after checkDependencies has returned false (lines 471-472); the
\* history variable records what the check returned, the run acts on DependenciesReady
DepsFailedPass == [kind |-> "deps_failed", ret |-> FALSE, iter |-> 0, empties |-> 0]
\* mutant: a failed dependency check is taken for a passed one
DependenciesReadyAlways(deps_ready) == TRUE
\* line 471: the loop goes on to streamToViews when checkDependencies returns true
DependenciesReady(deps_ready) == deps_ready

\* one tick of the clock, and the time a streaming pass can take: at least one tick
Tick == MAX_THREAD_WORK_DURATION_MS \div TimeSteps
PassDurations == {k * Tick : k \in 1..(TimeSteps + 1)}
\* lines 489-490: duration = end_time - start_time after a pass that took spent
\* milliseconds; every value beyond the budget is kept as the first tick beyond it
Elapsed(d, spent) == Min(d + spent, MAX_THREAD_WORK_DURATION_MS + Tick)
\* mutant: the budget is never found exceeded
BudgetExceededNever(d) == FALSE
\* line 490: duration.count() > MAX_THREAD_WORK_DURATION_MS
BudgetExceeded(d) == d > MAX_THREAD_WORK_DURATION_MS

\* values of pass in a run that does not enter the streaming section (line 462)
SkipKinds == {"no_views", "no_connection"}
SkippedPass(has_views) ==
    [kind |-> IF has_views THEN "no_connection" ELSE "no_views",
     ret |-> FALSE, iter |-> 0, empties |-> 0]

\* ------------------------------------------------------------------ Init
\* no checkDependencies call in progress
DepIdle ==
    /\ tables = <<>>
    /\ dependencies = <<>>
    /\ dep_stack = <<>>
    /\ dep_result = "none"

\* no segmentation call in progress
CsvIdle ==
    /\ in_data = <<>>
    /\ csv_call = <<>>
    /\ pos = 0
    /\ quotes = FALSE
    /\ need_more_data = FALSE
    /\ number_of_rows = 0
    /\ pc_csv = "none"
    /\ row_ends = {}

\* the table after its constructor, with no checkDependencies and no segmentation call
StorageInit ==
    /\ is_attach \in BOOLEAN
    /\ connected \in BOOLEAN
    \* the constructor rethrows a failed connect() unless attaching
    /\ pc_st = Constructed(connected, is_attach)
    /\ st_i = 0
    /\ shutdown_called = FALSE
    /\ num_created_consumers = 0
    /\ buffers = <<>>
    /\ semaphore = 0
    /\ subscribed = {}
    /\ pend = [p \in Pipes |-> 0]
    /\ take = [p \in Pipes |-> 0]
    /\ held = [p \in Pipes |-> EmptyBag]
    /\ readers_count = 0
    /\ mv_attached = FALSE
    /\ milliseconds_to_wait = RESCHEDULE_MS
    /\ nBackoff = 0
    /\ loop_state = STOP
    /\ loop_running = FALSE
    /\ active = [t \in Tasks |-> FALSE]
    /\ sched = [t \in Tasks |-> FALSE]
    /\ task_mutex = "free"
    /\ loop_mutex = "free"
    /\ pc_conn = "idle"
    /\ pc_stream = "idle"
    /\ pc_loop = "idle"
    /\ pc_sd = "idle"
    /\ sd_i = 0
    /\ sd_log = <<>>
    /\ rd = [r \in Readers |-> [pc |-> "idle", setting |-> FALSE, mv |-> FALSE, down |-> FALSE]]
    /\ pass = NoPass
    /\ idleLoop = FALSE
    /\ duration = 0

Init == StorageInit /\ DepIdle /\ CsvIdle
\* a table that takes no step: the state of the storage while a function is checked alone
StorageIdle == StorageInit /\ ~is_attach /\ ~connected

\* history variable idleLoop: set when, between two runs of the streaming task, the loop
\* is running with no reader and the table is not shut down; reset when the loop state
\* leaves RUN, a reader becomes active or shutdown is signaled
IdleLoopNext ==
    idleLoop' = IF loop_state' # RUN \/ readers_count' > 0 \/ shutdown_called' THEN FALSE
                ELSE IF pc_stream' = "idle" /\ loop_running' THEN TRUE
                ELSE idleLoop

\* ------------------------------------------------- variable groups
startV == <<is_attach, pc_st, st_i, num_created_consumers>>
poolV == <<buffers, semaphore, pend, take, held>>
backoffV == <<milliseconds_to_wait, nBackoff>>
sdV == <<pc_sd, sd_i, sd_log>>

\* ------------------------------------------------------------- startup()
StartupBegin ==
    /\ pc_st = "new"
    /\ pc_st' = "creating"
    /\ st_i' = 0
    /\ IF ~connected
       THEN /\ active' = Activated(active, "conn")
            /\ sched' = Scheduled(sched, "conn")
       ELSE UNCHANGED <<active, sched>>
    /\ UNCHANGED <<pc_conn, pass, is_attach, connected, shutdown_called, num_created_consumers, buffers,
                   semaphore, subscribed, pend, take, held, readers_count, mv_attached,
                   milliseconds_to_wait, nBackoff, loop_state, loop_running, task_mutex,
                   loop_mutex, pc_stream, pc_loop, pc_sd, sd_i, sd_log, rd>>
    /\ IdleLoopNext
    /\ UNCHANGED <<duration, depV, csvV>>

\* one iteration of the creation loop: createReadBuffer, pushReadBuffer, ++num_created_consumers
StartupCreate ==
    /\ pc_st = "creating"
    /\ st_i < NumConsumers
    /\ \E created \in BOOLEAN :
         IF created
         THEN /\ buffers' = PushBack(buffers, num_created_consumers + 1)
              /\ semaphore' = SemaphoreSet(semaphore)
              /\ subscribed' = subscribed \cup {num_created_consumers + 1}
              /\ num_created_consumers' = num_created_consumers + 1
              /\ st_i' = st_i + 1
              /\ pc_st' = pc_st
         ELSE /\ UNCHANGED <<buffers, semaphore, subscribed, num_created_consumers>>
              /\ IF CreateFailed(is_attach) = "skip"
                 THEN st_i' = st_i + 1 /\ pc_st' = pc_st
                 ELSE st_i' = st_i /\ pc_st' = "startup_failed"
    /\ UNCHANGED <<pc_conn, pass, is_attach, connected, shutdown_called, pend, take, held, readers_count,
                   mv_attached, milliseconds_to_wait, nBackoff, loop_state, loop_running,
                   active, sched, task_mutex, loop_mutex, pc_stream, pc_loop,
                   pc_sd, sd_i, sd_log, rd>>
    /\ IdleLoopNext
    /\ UNCHANGED <<duration, depV, csvV>>

StartupFinish ==
    /\ pc_st = "creating"
    /\ st_i = NumConsumers
    /\ pc_st' = "started"
    /\ active' = Activated(active, "stream")
    /\ sched' = Scheduled(sched, "stream")
    /\ UNCHANGED <<pc_conn, pass, is_attach, st_i, connected, shutdown_called, num_created_consumers,
                   buffers, semaphore, subscribed, pend, take, held, readers_count,
                   mv_attached, milliseconds_to_wait, nBackoff, loop_state, loop_running,
                   task_mutex, loop_mutex, pc_stream, pc_loop, pc_sd, sd_i,
                   sd_log, rd>>
    /\ IdleLoopNext
    /\ UNCHANGED <<duration, depV, csvV>>

\* ------------------------------------------------- connection task
\* the pool starts a run of the connection task
ConnectionStart ==
    /\ pc_conn = "idle"
    /\ active["conn"] /\ sched["conn"]
    /\ pc_conn' = "run"
    /\ sched' = Unscheduled(sched, "conn")
    /\ UNCHANGED <<pass, startV, poolV, backoffV, sdV, connected, shutdown_called, subscribed,
                   readers_count, mv_attached, loop_state, loop_running, active,
                   task_mutex, loop_mutex, pc_stream, pc_loop, rd>>
    /\ IdleLoopNext
    /\ UNCHANGED <<duration, depV, csvV>>

\* mutant: the retry is scheduled after a successful reconnect instead
ConnectionRescheduleInverted(ok) ==
    IF ok THEN ScheduledAfter(sched, active, "conn") ELSE sched
\* lines 208-209, as the new schedule:
\* if (!connection->reconnect()) connection_task->scheduleAfter(RESCHEDULE_MS)
ConnectionReschedule(ok) ==
    IF ~ok THEN ScheduledAfter(sched, active, "conn") ELSE sched

\* connectionFunc(), lines 206-210: reconnect, and on failure scheduleAfter(RESCHEDULE_MS)
ConnectionFunc ==
    /\ pc_conn = "run"
    /\ pc_conn' = "idle"
    /\ \E attempt_ok \in BOOLEAN :
         /\ connected' = Reconnect(connected, attempt_ok)
         /\ sched' = ConnectionReschedule(Reconnect(connected, attempt_ok))
    /\ UNCHANGED <<pass, startV, poolV, backoffV, sdV, shutdown_called, subscribed, readers_count,
                   mv_attached, loop_state, loop_running, active, task_mutex, loop_mutex,
                   pc_stream, pc_loop, rd>>
    /\ IdleLoopNext
    /\ UNCHANGED <<duration, depV, csvV>>

\* the broker connection drops
ConnectionLost ==
    /\ pc_st = "started"
    /\ connected
    /\ connected' = FALSE
    /\ UNCHANGED <<pc_conn, pass, is_attach, pc_st, st_i, shutdown_called, num_created_consumers,
                   buffers, semaphore, subscribed, pend, take, held, readers_count,
                   mv_attached, milliseconds_to_wait, nBackoff, loop_state, loop_running,
                   active, sched, task_mutex, loop_mutex, pc_stream, pc_loop,
                   pc_sd, sd_i, sd_log, rd>>
    /\ IdleLoopNext
    /\ UNCHANGED <<duration, depV, csvV>>

\* ------------------------------------------------- looping task
\* loopingFunc enters NATSHandler::startLoop
LoopingFunc ==
    /\ pc_loop = "idle"
    /\ active["loop"] /\ sched["loop"]
    /\ pc_loop' = "run"
    /\ loop_running' = TRUE
    /\ sched' = Unscheduled(sched, "loop")
    /\ UNCHANGED <<pc_conn, pass, is_attach, pc_st, st_i, connected, shutdown_called, num_created_consumers,
                   buffers, semaphore, subscribed, pend, take, held, readers_count,
                   mv_attached, milliseconds_to_wait, nBackoff, loop_state, active,
                   task_mutex, loop_mutex, pc_stream, pc_sd, sd_i, sd_log, rd>>
    /\ IdleLoopNext
    /\ UNCHANGED <<duration, depV, csvV>>

\* the blocking run observes a loop state other than RUN and returns
LoopExit ==
    /\ pc_loop = "run"
    /\ loop_state # RUN
    /\ pc_loop' = "idle"
    /\ loop_running' = FALSE
    /\ UNCHANGED <<pc_conn, pass, is_attach, pc_st, st_i, connected, shutdown_called, num_created_consumers,
                   buffers, semaphore, subscribed, pend, take, held, readers_count,
                   mv_attached, milliseconds_to_wait, nBackoff, loop_state, active, sched,
                   task_mutex, loop_mutex, pc_stream, pc_sd, sd_i, sd_log, rd>>
    /\ IdleLoopNext
    /\ UNCHANGED <<duration, depV, csvV>>

\* ------------------------------------------------- streaming task
\* mutant: the loop state is updated, the looping task is not activated
StartLoopNoSchedule == <<RUN, active, sched>>
\* startLoop(), lines 189-190, as new values of <<loop_state, active, sched>>
StartLoop == <<RUN, Activated(active, "loop"), Scheduled(sched, "loop")>>

\* streamingToViewsFunc, lines 456-466: dependencies_count, nats_connected, mv_attached
StreamingStart ==
    /\ pc_stream = "idle"
    /\ active["stream"] /\ sched["stream"]
    /\ sched' = Unscheduled(sched, "stream")
    /\ \E has_views \in BOOLEAN, attempt_ok \in BOOLEAN :
         /\ connected' = Reconnect(connected, attempt_ok)
         /\ IF StreamingSection(has_views, Reconnect(connected, attempt_ok))
            THEN mv_attached' = TRUE /\ pc_stream' = "s_loop" /\ pass' = NoPass
            ELSE /\ mv_attached' = mv_attached /\ pc_stream' = "s_end"
                 /\ pass' = SkippedPass(has_views)
    /\ duration' = 0
    /\ UNCHANGED <<pc_conn, startV, poolV, backoffV, sdV, shutdown_called, subscribed, readers_count,
                   loop_state, loop_running, active, task_mutex, loop_mutex, pc_loop, rd>>
    /\ IdleLoopNext
    /\ UNCHANGED <<depV, csvV>>

\* lines 469-472, the while condition and checkDependencies, then streamToViews,
\* lines 519-566: the sources are built and the loop is started if it is not running;
\* an exception (getTable, interpreter.execute) ends the cycle in the catch block
StreamToViewsBegin ==
    /\ pc_stream = "s_loop"
    /\ IF shutdown_called \/ num_created_consumers = 0
       THEN /\ pc_stream' = "s_end"
            /\ pass' = NoPass
            /\ UNCHANGED <<pend, loop_state, active, sched>>
       ELSE \E deps_ready \in BOOLEAN, throws \in BOOLEAN :
              IF ~DependenciesReady(deps_ready) \/ throws
              THEN /\ pc_stream' = "s_end"
                   /\ pass' = IF deps_ready THEN ExceptionPass ELSE DepsFailedPass
                   /\ UNCHANGED <<pend, loop_state, active, sched>>
              ELSE /\ pc_stream' = "stv_exec"
                   /\ pass' = IF deps_ready THEN NoPass ELSE DepsFailedPass
                   /\ pend' = [pend EXCEPT !["stream"] = num_created_consumers]
                   /\ LET l == IF ~loop_running THEN StartLoop
                               ELSE <<loop_state, active, sched>>
                      IN loop_state' = l[1] /\ active' = l[2] /\ sched' = l[3]
    /\ UNCHANGED <<pc_conn, startV, backoffV, sdV, buffers, semaphore, take, held, connected,
                   shutdown_called, subscribed, readers_count, mv_attached, loop_running,
                   task_mutex, loop_mutex, pc_loop, rd>>
    /\ duration' = IF pc_stream' = "s_end" THEN 0 ELSE duration
    /\ IdleLoopNext
    /\ UNCHANGED <<depV, csvV>>

\* lines 568-576: executor.execute() has returned (or thrown); then
\* deactivateTask(looping_task, false, true)
StreamToViewsExecuted ==
    /\ pc_stream = "stv_exec"
    /\ pend["stream"] = 0 /\ take["stream"] = 0
    /\ \E throws \in BOOLEAN :
         IF throws
         THEN /\ pc_stream' = "s_end"
              /\ pass' = ExceptionPass
              /\ buffers' = PushAll(buffers, held["stream"], Buffers)
              /\ semaphore' = semaphore + HeldCount("stream")
              /\ held' = [held EXCEPT !["stream"] = EmptyBag]
              /\ UNCHANGED <<loop_state, task_mutex>>
         ELSE /\ loop_state' = STOP
              /\ pass' = pass
              /\ IF DeactivateSkips(FALSE, task_mutex = "free")
                 THEN pc_stream' = "stv_check" /\ task_mutex' = task_mutex
                 ELSE pc_stream' = "stv_deact" /\ task_mutex' = "stream"
              /\ UNCHANGED <<buffers, semaphore, held>>
    /\ UNCHANGED <<pc_conn, startV, backoffV, sdV, pend, take, connected, shutdown_called,
                   subscribed, readers_count, mv_attached, loop_running, active, sched,
                   loop_mutex, pc_loop, rd>>
    /\ duration' = IF pc_stream' = "s_end" THEN 0 ELSE duration
    /\ IdleLoopNext
    /\ UNCHANGED <<depV, csvV>>

\* looping_task->deactivate() under task_mutex
StreamToViewsDeactivated ==
    /\ pc_stream = "stv_deact"
    /\ CanDeactivate("loop")
    /\ active' = Deactivated(active, "loop")
    /\ sched' = Unscheduled(sched, "loop")
    /\ task_mutex' = "free"
    /\ pc_stream' = "stv_check"
    /\ UNCHANGED <<pc_conn, pass, startV, poolV, backoffV, sdV, connected, shutdown_called, subscribed,
                   readers_count, mv_attached, loop_state, loop_running, loop_mutex,
                   pc_loop, rd>>
    /\ IdleLoopNext
    /\ UNCHANGED <<duration, depV, csvV>>

\* mutant: a pass that restored the connection backs off
StreamToViewsResultBackoffOnRestore(is_connected, is_shutdown, attempt_ok, queue_empty, n_created) ==
    IF ~is_connected THEN TRUE ELSE queue_empty = n_created
\* streamToViews, lines 577-616: the value returned ("back off") for the connection
\* state, the reconnect outcome and the number of sources with an empty queue
StreamToViewsResult(is_connected, is_shutdown, attempt_ok, queue_empty, n_created) ==
    IF ~is_connected
    THEN IF is_shutdown THEN TRUE
         ELSE IF attempt_ok THEN 0 = n_created
         ELSE TRUE
    ELSE queue_empty = n_created

\* lines 577-616 and, back in streamingToViewsFunc, lines 476-496
StreamToViewsCheck ==
    /\ pc_stream = "stv_check"
    /\ \E attempt_ok \in BOOLEAN, queue_empty \in 0..num_created_consumers,
          spent \in PassDurations :
         LET back_off == StreamToViewsResult(connected, shutdown_called, attempt_ok,
                                             queue_empty, num_created_consumers)
         IN /\ connected' = IF ~connected /\ ~shutdown_called THEN attempt_ok ELSE connected
            /\ pass' = [kind |-> PassKind(connected, shutdown_called, attempt_ok),
                        ret |-> back_off,
                        iter |-> IterateLoopCalls(connected, num_created_consumers),
                        empties |-> queue_empty]
            /\ IF back_off
               THEN /\ milliseconds_to_wait' = Backoff(milliseconds_to_wait)
                    /\ nBackoff' = Min(nBackoff + 1, MaxBackoff)
                    /\ pc_stream' = "s_stop"
                    /\ duration' = 0
                    /\ UNCHANGED <<loop_state, active, sched>>
               ELSE /\ loop_state' = StartLoop[1]
                    /\ active' = StartLoop[2]
                    /\ sched' = StartLoop[3]
                    /\ milliseconds_to_wait' = RESCHEDULE_MS
                    /\ nBackoff' = 0
                    /\ duration' = Elapsed(duration, spent)
                    /\ pc_stream' = IF BudgetExceeded(Elapsed(duration, spent))
                                     THEN "s_stop" ELSE "s_loop"
    \* the sources go out of scope: their buffers return to the pool
    /\ buffers' = PushAll(buffers, held["stream"], Buffers)
    /\ semaphore' = semaphore + HeldCount("stream")
    /\ held' = [held EXCEPT !["stream"] = EmptyBag]
    /\ UNCHANGED <<pc_conn, startV, sdV, pend, take, shutdown_called, subscribed, readers_count,
                   mv_attached, loop_running, task_mutex, loop_mutex, pc_loop, rd>>
    /\ IdleLoopNext
    /\ UNCHANGED <<depV, csvV>>

\* mutant: the loop state is left as it is
StopLoopNever == loop_state
\* mutant: Loop::RUN is written instead of Loop::STOP
StopLoopRestarts == IF readers_count # 0 THEN loop_state ELSE RUN
\* stopLoopIfNoReaders, lines 181-184, as the new loop state
StopLoopIfNoReaders == IF readers_count # 0 THEN loop_state ELSE STOP

\* lines 481 and 493, stopLoopIfNoReaders before the break; line 181: the lock is taken
StreamingStopLock ==
    /\ pc_stream = "s_stop"
    /\ LockGuard(loop_mutex)
    /\ loop_mutex' = "stream"
    /\ pc_stream' = "s_stop_l"
    /\ UNCHANGED <<pc_conn, pass, startV, poolV, backoffV, sdV, connected, shutdown_called,
                   subscribed, readers_count, mv_attached, loop_state, loop_running, active,
                   sched, task_mutex, pc_loop, rd>>
    \* the time measured is not used after line 490
    /\ duration' = 0
    /\ IdleLoopNext
    /\ UNCHANGED <<depV, csvV>>

\* lines 182-183: if (readers_count) return; the lock is released on return
StreamingStopRead ==
    /\ pc_stream = "s_stop_l"
    /\ IF readers_count # 0
       THEN pc_stream' = "s_end" /\ loop_mutex' = "free" /\ pass' = NoPass
       ELSE pc_stream' = "s_stop_w" /\ loop_mutex' = loop_mutex /\ pass' = pass
    /\ UNCHANGED <<pc_conn, startV, poolV, backoffV, sdV, connected, shutdown_called,
                   subscribed, readers_count, mv_attached, loop_state, loop_running, active,
                   sched, task_mutex, pc_loop, rd>>
    /\ duration' = IF pc_stream' = "s_end" THEN 0 ELSE duration
    /\ IdleLoopNext
    /\ UNCHANGED <<depV, csvV>>

\* line 184, reached with readers_count found zero: updateLoopState(Loop::STOP); the
\* lock is released on return
StreamingStop ==
    /\ pc_stream = "s_stop_w"
    /\ loop_state' = StopLoopIfNoReaders
    /\ loop_mutex' = "free"
    /\ pc_stream' = "s_end"
    /\ pass' = NoPass
    /\ UNCHANGED <<pc_conn, startV, poolV, backoffV, sdV, connected, shutdown_called, subscribed,
                   readers_count, mv_attached, loop_running, active, sched, task_mutex,
                   pc_loop, rd>>
    /\ duration' = 0
    /\ IdleLoopNext
    /\ UNCHANGED <<depV, csvV>>

\* mutant: the task is not scheduled again
StreamingRescheduleNever == sched
\* mutant: the task is scheduled again whatever shutdown_called holds
StreamingRescheduleAlways == ScheduledAfter(sched, active, "stream")
\* lines 512-513, as the new schedule:
\* if (!shutdown_called) streaming_task->scheduleAfter(milliseconds_to_wait)
StreamingReschedule ==
    IF ~shutdown_called THEN ScheduledAfter(sched, active, "stream") ELSE sched

\* lines 505-513 when loopRunning() is false: mv_attached.store(false), reschedule
\* lines 505-509 when it is true: mv_attached.store(false), on to stopLoopIfNoReaders
\* (pass is kept up to the return of the run)
StreamingEnd ==
    /\ pc_stream = "s_end"
    /\ mv_attached' = MvAttachedAtEnd
    /\ IF loop_running
       THEN /\ pc_stream' = "e_stop" /\ sched' = sched
            /\ pass' = pass
       ELSE pc_stream' = "idle" /\ sched' = StreamingReschedule /\ pass' = NoPass
    /\ UNCHANGED <<pc_conn, startV, poolV, backoffV, sdV, connected, shutdown_called, subscribed,
                   readers_count, loop_state, loop_running, active, task_mutex,
                   loop_mutex, pc_loop, rd>>
    /\ IdleLoopNext
    /\ UNCHANGED <<duration, depV, csvV>>

\* line 510, stopLoopIfNoReaders; line 181: the lock is taken
StreamingIdleLock ==
    /\ pc_stream = "e_stop"
    /\ LockGuard(loop_mutex)
    /\ loop_mutex' = "stream"
    /\ pc_stream' = "e_stop_l"
    /\ UNCHANGED <<pc_conn, pass, startV, poolV, backoffV, sdV, connected, shutdown_called,
                   subscribed, readers_count, mv_attached, loop_state, loop_running, active,
                   sched, task_mutex, pc_loop, rd>>
    /\ IdleLoopNext
    /\ UNCHANGED <<duration, depV, csvV>>

\* lines 182-183: if (readers_count) return, and then lines 512-513: reschedule
StreamingIdleRead ==
    /\ pc_stream = "e_stop_l"
    /\ IF readers_count # 0
       THEN /\ pc_stream' = "idle" /\ loop_mutex' = "free" /\ pass' = NoPass
            /\ sched' = StreamingReschedule
       ELSE pc_stream' = "e_stop_w" /\ loop_mutex' = loop_mutex /\ pass' = pass /\ sched' = sched
    /\ UNCHANGED <<pc_conn, startV, poolV, backoffV, sdV, connected, shutdown_called,
                   subscribed, readers_count, mv_attached, loop_state, loop_running, active,
                   task_mutex, pc_loop, rd>>
    /\ IdleLoopNext
    /\ UNCHANGED <<duration, depV, csvV>>

\* line 184, reached with readers_count found zero: updateLoopState(Loop::STOP), and
\* then lines 512-513: reschedule
StreamingIdleCheck ==
    /\ pc_stream = "e_stop_w"
    /\ loop_state' = StopLoopIfNoReaders
    /\ loop_mutex' = "free"
    /\ sched' = StreamingReschedule
    /\ pc_stream' = "idle"
    /\ pass' = NoPass
    /\ UNCHANGED <<pc_conn, startV, poolV, backoffV, sdV, connected, shutdown_called, subscribed,
                   readers_count, mv_attached, loop_running, active, task_mutex,
                   pc_loop, rd>>
    /\ IdleLoopNext
    /\ UNCHANGED <<duration, depV, csvV>>

\* ------------------------------------------------- sources and the buffer pool
\* a pipeline whose sources are executing
PipeRunning(p) == IF p = "stream" THEN pc_stream = "stv_exec" ELSE rd[p].pc = "p_run"

\* popReadBuffer, lines 390-396: a source passes the semaphore
PopSemaphore(p) ==
    /\ PipeRunning(p)
    /\ pend[p] > 0
    /\ \E timeout \in Timeouts : PopWait(timeout, semaphore) = "take"
    /\ semaphore' = semaphore - 1
    /\ pend' = [pend EXCEPT ![p] = @ - 1]
    /\ take' = [take EXCEPT ![p] = @ + 1]
    /\ UNCHANGED <<pc_conn, pass, startV, backoffV, sdV, buffers, held, connected, shutdown_called,
                   subscribed, readers_count, mv_attached, loop_state, loop_running,
                   active, sched, task_mutex, loop_mutex, pc_stream, pc_loop, rd>>
    /\ IdleLoopNext
    /\ UNCHANGED <<duration, depV, csvV>>

\* popReadBuffer(timeout), lines 394-395: tryWait expires, nullptr is returned
PopTimeout(p) ==
    /\ PipeRunning(p)
    /\ pend[p] > 0
    /\ \E timeout \in Timeouts : PopWait(timeout, semaphore) = "null"
    /\ pend' = [pend EXCEPT ![p] = @ - 1]
    /\ UNCHANGED <<pc_conn, pass, startV, backoffV, sdV, buffers, semaphore, take, held, connected,
                   shutdown_called, subscribed, readers_count, mv_attached, loop_state,
                   loop_running, active, sched, task_mutex, loop_mutex, pc_stream, pc_loop, rd>>
    /\ IdleLoopNext
    /\ UNCHANGED <<duration, depV, csvV>>

\* popReadBuffer, lines 399-403: under buffers_mutex, back() and pop_back()
PopTake(p) ==
    /\ take[p] > 0
    /\ Len(buffers) > 0
    /\ held' = [held EXCEPT ![p][Back(buffers)] = @ + 1]
    /\ buffers' = PopBack(buffers)
    /\ take' = [take EXCEPT ![p] = @ - 1]
    /\ UNCHANGED <<pc_conn, pass, startV, backoffV, sdV, semaphore, pend, connected, shutdown_called,
                   subscribed, readers_count, mv_attached, loop_state, loop_running,
                   active, sched, task_mutex, loop_mutex, pc_stream, pc_loop, rd>>
    /\ IdleLoopNext
    /\ UNCHANGED <<duration, depV, csvV>>

\* pushReadBuffer, lines 375-377: a source of a direct read returns its buffer
PushReadBuffer(r) ==
    /\ rd[r].pc = "p_run"
    /\ \E b \in Buffers :
         /\ held[r][b] > 0
         /\ held' = [held EXCEPT ![r][b] = @ - 1]
         /\ buffers' = PushBack(buffers, b)
    /\ semaphore' = SemaphoreSet(semaphore)
    /\ UNCHANGED <<pc_conn, pass, startV, backoffV, sdV, pend, take, connected, shutdown_called,
                   subscribed, readers_count, mv_attached, loop_state, loop_running,
                   active, sched, task_mutex, loop_mutex, pc_stream, pc_loop, rd>>
    /\ IdleLoopNext
    /\ UNCHANGED <<duration, depV, csvV>>

\* ------------------------------------------------- read()
\* lines 252-259
ReadCall(r) ==
    /\ pc_st = "started"
    /\ rd[r].pc = "idle"
    /\ \E direct_select \in BOOLEAN :
         LET res == ReadCheck(num_created_consumers, direct_select, mv_attached)
         IN rd' = [rd EXCEPT ![r] = [pc |-> CASE res = "empty" -> "r_empty"
                                              [] res = "QUERY_NOT_ALLOWED" -> "r_not_allowed"
                                              [] OTHER -> "r_lock",
                                     setting |-> direct_select,
                                     mv |-> mv_attached,
                                     down |-> FALSE]]
    /\ UNCHANGED <<pc_conn, pass, startV, poolV, backoffV, sdV, connected, shutdown_called, subscribed,
                   readers_count, mv_attached, loop_state, loop_running, active, sched,
                   task_mutex, loop_mutex, pc_stream, pc_loop>>
    /\ IdleLoopNext
    /\ UNCHANGED <<duration, depV, csvV>>

\* the call has returned an empty pipe or thrown; the caller goes on
ReadReturn(r) ==
    /\ rd[r].pc \in {"r_empty", "r_not_allowed", "r_no_connection"}
    /\ rd' = [rd EXCEPT ![r] = [pc |-> "idle", setting |-> FALSE, mv |-> FALSE, down |-> FALSE]]
    /\ UNCHANGED <<pc_conn, pass, startV, poolV, backoffV, sdV, connected, shutdown_called, subscribed,
                   readers_count, mv_attached, loop_state, loop_running, active, sched,
                   task_mutex, loop_mutex, pc_stream, pc_loop>>
    /\ IdleLoopNext
    /\ UNCHANGED <<duration, depV, csvV>>

\* line 261, std::lock_guard lock(loop_mutex), and lines 266-269: isConnected,
\* loopRunning, deactivateTask(looping_task, false, true)
ReadLock(r) ==
    /\ rd[r].pc = "r_lock"
    /\ LockGuard(loop_mutex)
    /\ loop_mutex' = r
    /\ IF connected
       THEN /\ rd' = [rd EXCEPT ![r].pc = "r_build"]
            /\ UNCHANGED <<loop_state, task_mutex>>
       ELSE IF ~loop_running
       THEN /\ rd' = [rd EXCEPT ![r].pc = "r_reconnect", ![r].down = TRUE]
            /\ UNCHANGED <<loop_state, task_mutex>>
       ELSE /\ loop_state' = STOP
            /\ IF DeactivateSkips(FALSE, task_mutex = "free")
               THEN /\ rd' = [rd EXCEPT ![r].pc = "r_reconnect", ![r].down = TRUE]
                    /\ task_mutex' = task_mutex
               ELSE /\ rd' = [rd EXCEPT ![r].pc = "r_deact", ![r].down = TRUE]
                    /\ task_mutex' = r
    /\ UNCHANGED <<pc_conn, pass, startV, poolV, backoffV, sdV, connected, shutdown_called, subscribed,
                   readers_count, mv_attached, loop_running, active, sched, pc_stream, pc_loop>>
    /\ IdleLoopNext
    /\ UNCHANGED <<duration, depV, csvV>>

\* looping_task->deactivate() under task_mutex
ReadDeactivated(r) ==
    /\ rd[r].pc = "r_deact"
    /\ CanDeactivate("loop")
    /\ active' = Deactivated(active, "loop")
    /\ sched' = Unscheduled(sched, "loop")
    /\ task_mutex' = "free"
    /\ rd' = [rd EXCEPT ![r].pc = "r_reconnect"]
    /\ UNCHANGED <<pc_conn, pass, startV, poolV, backoffV, sdV, connected, shutdown_called, subscribed,
                   readers_count, mv_attached, loop_state, loop_running, loop_mutex,
                   pc_stream, pc_loop>>
    /\ IdleLoopNext
    /\ UNCHANGED <<duration, depV, csvV>>

\* lines 270-271: reconnect or throw CANNOT_CONNECT_NATS
ReadReconnect(r) ==
    /\ rd[r].pc = "r_reconnect"
    /\ \E attempt_ok \in BOOLEAN :
         /\ connected' = Reconnect(connected, attempt_ok)
         /\ IF Reconnect(connected, attempt_ok)
            THEN rd' = [rd EXCEPT ![r].pc = "r_build"] /\ loop_mutex' = loop_mutex
            ELSE rd' = [rd EXCEPT ![r].pc = "r_no_connection"] /\ loop_mutex' = "free"
    /\ UNCHANGED <<pc_conn, pass, startV, poolV, backoffV, sdV, shutdown_called, subscribed,
                   readers_count, mv_attached, loop_state, loop_running, active, sched,
                   task_mutex, pc_stream, pc_loop>>
    /\ IdleLoopNext
    /\ UNCHANGED <<duration, depV, csvV>>

\* incrementReader(), line 196
IncrementReader(n) == n + 1
\* decrementReader(), line 202
DecrementReader(n) == n - 1

\* mutant: read() starts the loop whatever it finds
ReadStartsLoopAlways(running, is_connected) == TRUE
\* line 294: if (!connection->getHandler().loopRunning() && connection->isConnected())
ReadStartsLoop(running, is_connected) == ~running /\ is_connected

\* lines 274-300: the sources are built (the reader is counted), the loop is started if
\* it is not running and the connection is up, the pipe is returned and starts executing
ReadBuild(r) ==
    /\ rd[r].pc = "r_build"
    /\ LET l == IF ReadStartsLoop(loop_running, connected) THEN StartLoop
                ELSE <<loop_state, active, sched>>
       IN loop_state' = l[1] /\ active' = l[2] /\ sched' = l[3]
    /\ readers_count' = IncrementReader(readers_count)
    /\ pend' = [pend EXCEPT ![r] = num_created_consumers]
    /\ loop_mutex' = "free"
    /\ rd' = [rd EXCEPT ![r].pc = "p_run", ![r].down = FALSE]
    /\ UNCHANGED <<pc_conn, pass, startV, backoffV, sdV, buffers, semaphore, take, held, connected,
                   shutdown_called, subscribed, mv_attached, loop_running, task_mutex,
                   pc_stream, pc_loop>>
    /\ IdleLoopNext
    /\ UNCHANGED <<duration, depV, csvV>>

\* the pipeline of a direct read completes: decrementReader
ReadFinished(r) ==
    /\ rd[r].pc = "p_run"
    /\ pend[r] = 0 /\ take[r] = 0 /\ HeldCount(r) = 0
    /\ readers_count' = DecrementReader(readers_count)
    /\ rd' = [rd EXCEPT ![r] = [pc |-> "idle", setting |-> FALSE, mv |-> FALSE, down |-> FALSE]]
    /\ UNCHANGED <<pc_conn, pass, startV, poolV, backoffV, sdV, connected, shutdown_called, subscribed,
                   mv_attached, loop_state, loop_running, active, sched, task_mutex,
                   loop_mutex, pc_stream, pc_loop>>
    /\ IdleLoopNext
    /\ UNCHANGED <<duration, depV, csvV>>

\* ------------------------------------------------- shutdown()
\* position of shutdown() before and inside the deactivation of task t
ShutdownAt(t) == CASE t = "conn" -> "sd_conn" [] t = "stream" -> "sd_stream"
                   [] t = "loop" -> "sd_loop"
ShutdownIn(t) == CASE t = "conn" -> "sd_conn_w" [] t = "stream" -> "sd_stream_w"
                   [] t = "loop" -> "sd_loop_w"
\* lines 342-350: what follows the deactivation of task t
ShutdownAfter(t) == CASE t = "conn" -> "sd_stream" [] t = "stream" -> "sd_stop"
                      [] t = "loop" -> "sd_unsub"

\* line 339
ShutdownCall ==
    /\ pc_st = "started"
    /\ pc_sd = "idle"
    /\ shutdown_called' = TRUE
    /\ pc_sd' = ShutdownAt("conn")
    /\ UNCHANGED <<pc_conn, pass, startV, poolV, backoffV, sd_i, sd_log, connected, subscribed,
                   readers_count, mv_attached, loop_state, loop_running, active, sched,
                   task_mutex, loop_mutex, pc_stream, pc_loop, rd>>
    /\ IdleLoopNext
    /\ UNCHANGED <<duration, depV, csvV>>

\* deactivateTask(task, true, ...), lines 221-229: try_lock, else a blocking lock
ShutdownLock(t) ==
    /\ pc_sd = ShutdownAt(t)
    /\ IF DeactivateSkips(TRUE, task_mutex = "free")
       THEN pc_sd' = ShutdownAfter(t) /\ task_mutex' = task_mutex
       ELSE /\ task_mutex = "free"
            /\ task_mutex' = "shutdown"
            /\ pc_sd' = ShutdownIn(t)
    /\ UNCHANGED <<pc_conn, pass, startV, poolV, backoffV, sd_i, sd_log, connected, shutdown_called,
                   subscribed, readers_count, mv_attached, loop_state, loop_running,
                   active, sched, loop_mutex, pc_stream, pc_loop, rd>>
    /\ IdleLoopNext
    /\ UNCHANGED <<duration, depV, csvV>>

\* task->deactivate() under task_mutex, lines 224-225 / 230
ShutdownDeactivate(t) ==
    /\ pc_sd = ShutdownIn(t)
    /\ CanDeactivate(t)
    /\ active' = Deactivated(active, t)
    /\ sched' = Unscheduled(sched, t)
    /\ task_mutex' = "free"
    /\ sd_log' = Append(sd_log, t)
    /\ pc_sd' = ShutdownAfter(t)
    /\ UNCHANGED <<pc_conn, pass, startV, poolV, backoffV, sd_i, connected, shutdown_called, subscribed,
                   readers_count, mv_attached, loop_state, loop_running, loop_mutex,
                   pc_stream, pc_loop, rd>>
    /\ IdleLoopNext
    /\ UNCHANGED <<duration, depV, csvV>>

\* deactivateTask(looping_task, true, true), lines 218-219: stopLoop()
ShutdownStopLoop ==
    /\ pc_sd = "sd_stop"
    /\ loop_state' = STOP
    /\ sd_log' = Append(sd_log, "stop")
    /\ pc_sd' = ShutdownAt("loop")
    /\ UNCHANGED <<pc_conn, pass, startV, poolV, backoffV, sd_i, connected, shutdown_called, subscribed,
                   readers_count, mv_attached, loop_running, active, sched, task_mutex,
                   loop_mutex, pc_stream, pc_loop, rd>>
    /\ IdleLoopNext
    /\ UNCHANGED <<duration, depV, csvV>>

\* lines 352-356: if (drop_table) every buffer of the free collection is unsubscribed
ShutdownUnsubscribe ==
    /\ pc_sd = "sd_unsub"
    /\ \E drop_table \in BOOLEAN :
         subscribed' = Unsubscribe(subscribed, buffers, drop_table)
    /\ pc_sd' = "sd_disc"
    /\ UNCHANGED <<pc_conn, pass, startV, poolV, backoffV, sd_i, sd_log, connected, shutdown_called,
                   readers_count, mv_attached, loop_state, loop_running, active, sched,
                   task_mutex, loop_mutex, pc_stream, pc_loop, rd>>
    /\ IdleLoopNext
    /\ UNCHANGED <<duration, depV, csvV>>

\* lines 360-362: if (loopRunning()) stopLoop(); connection->disconnect()
ShutdownDisconnect ==
    /\ pc_sd = "sd_disc"
    /\ loop_state' = IF loop_running THEN STOP ELSE loop_state
    /\ connected' = FALSE
    /\ sd_i' = 0
    /\ pc_sd' = "sd_pop"
    /\ UNCHANGED <<pc_conn, pass, startV, poolV, backoffV, sd_log, shutdown_called, subscribed,
                   readers_count, mv_attached, loop_running, active, sched, task_mutex,
                   loop_mutex, pc_stream, pc_loop, rd>>
    /\ IdleLoopNext
    /\ UNCHANGED <<duration, depV, csvV>>

\* lines 364-365 with popReadBuffer(), lines 390-391: semaphore.wait()
ShutdownPopWait ==
    /\ pc_sd = "sd_pop"
    /\ sd_i < num_created_consumers
    /\ PopWait(0, semaphore) # "block"
    /\ IF PopWait(0, semaphore) = "take"
       THEN semaphore' = semaphore - 1 /\ pc_sd' = "sd_take" /\ sd_i' = sd_i
       ELSE semaphore' = semaphore /\ pc_sd' = "sd_pop" /\ sd_i' = sd_i + 1
    /\ UNCHANGED <<pc_conn, pass, startV, backoffV, sd_log, buffers, pend, take, held, connected,
                   shutdown_called, subscribed, readers_count, mv_attached, loop_state,
                   loop_running, active, sched, task_mutex, loop_mutex, pc_stream, pc_loop, rd>>
    /\ IdleLoopNext
    /\ UNCHANGED <<duration, depV, csvV>>

\* popReadBuffer(), lines 399-403; the buffer returned is dropped
ShutdownPopTake ==
    /\ pc_sd = "sd_take"
    /\ Len(buffers) > 0
    /\ buffers' = PopBack(buffers)
    /\ sd_i' = sd_i + 1
    /\ pc_sd' = "sd_pop"
    /\ UNCHANGED <<pc_conn, pass, startV, backoffV, sd_log, semaphore, pend, take, held, connected,
                   shutdown_called, subscribed, readers_count, mv_attached, loop_state,
                   loop_running, active, sched, task_mutex, loop_mutex, pc_stream, pc_loop, rd>>
    /\ IdleLoopNext
    /\ UNCHANGED <<duration, depV, csvV>>

\* mutant: the flag is cleared when shutdown() returns
ShutdownReturnClearsFlag ==
    /\ pc_sd = "sd_pop"
    /\ sd_i = num_created_consumers
    /\ pc_sd' = "done"
    /\ shutdown_called' = FALSE
    /\ UNCHANGED <<pc_conn, pass, startV, poolV, backoffV, sd_i, sd_log, connected,
                   subscribed, readers_count, mv_attached, loop_state, loop_running,
                   active, sched, task_mutex, loop_mutex, pc_stream, pc_loop, rd>>
    /\ IdleLoopNext
    /\ UNCHANGED <<duration, depV, csvV>>
\* shutdown() returns
ShutdownReturn ==
    /\ pc_sd = "sd_pop"
    /\ sd_i = num_created_consumers
    /\ pc_sd' = "done"
    /\ UNCHANGED <<pc_conn, pass, startV, poolV, backoffV, sd_i, sd_log, connected, shutdown_called,
                   subscribed, readers_count, mv_attached, loop_state, loop_running,
                   active, sched, task_mutex, loop_mutex, pc_stream, pc_loop, rd>>
    /\ IdleLoopNext
    /\ UNCHANGED <<duration, depV, csvV>>

\* ------------------------------------------------- specification
Next ==
    \/ StartupBegin
    \/ StartupCreate
    \/ StartupFinish
    \/ ConnectionStart
    \/ ConnectionFunc
    \/ ConnectionLost
    \/ LoopingFunc
    \/ LoopExit
    \/ StreamingStart
    \/ StreamToViewsBegin
    \/ StreamToViewsExecuted
    \/ StreamToViewsDeactivated
    \/ StreamToViewsCheck
    \/ StreamingStopLock
    \/ StreamingStopRead
    \/ StreamingStop
    \/ StreamingEnd
    \/ StreamingIdleLock
    \/ StreamingIdleRead
    \/ StreamingIdleCheck
    \/ \E p \in Pipes : PopSemaphore(p)
    \/ \E p \in Pipes : PopTimeout(p)
    \/ \E p \in Pipes : PopTake(p)
    \/ \E r \in Readers : PushReadBuffer(r)
    \/ \E r \in Readers : ReadCall(r)
    \/ \E r \in Readers : ReadReturn(r)
    \/ \E r \in Readers : ReadLock(r)
    \/ \E r \in Readers : ReadDeactivated(r)
    \/ \E r \in Readers : ReadReconnect(r)
    \/ \E r \in Readers : ReadBuild(r)
    \/ \E r \in Readers : ReadFinished(r)
    \/ ShutdownCall
    \/ \E t \in Tasks : ShutdownLock(t)
    \/ \E t \in Tasks : ShutdownDeactivate(t)
    \/ ShutdownStopLoop
    \/ ShutdownUnsubscribe
    \/ ShutdownDisconnect
    \/ ShutdownPopWait
    \/ ShutdownPopTake
    \/ ShutdownReturn

Spec == Init /\ [][Next]_vars

\* ------------------------------------------------- checkDependencies
\* the id of the table whose dependencies are checked, and the ids of the other tables
RootTable == 0
TableIds == 1..NumTables
\* what the catalog holds under a table id: nothing (tryGetTable returns null), a table
\* that is no materialized view, a materialized view with its target table, a
\* materialized view whose tryGetTargetTable returns null
TableKinds == {"missing", "table", "view", "view_no_target"}

\* the elements of a set of table ids in ascending order
RECURSIVE SortedSeq(_)
SortedSeq(S) ==
    IF S = {} THEN <<>>
    ELSE LET m == CHOOSE x \in S : \A y \in S : x <= y
         IN <<m>> \o SortedSeq(S \ {m})

\* a call of checkDependencies(t) at its entry: the range-for is at its first element
Frame(t) == [table_id |-> t, next |-> 1]
\* the longest chain of calls over a graph without a cycle: the root and every table once
MaxDepth == NumTables + 1
\* the call stack after one more call; a chain longer than MaxDepth holds some table
\* twice and, the catalog being the same for both calls, repeats itself without end:
\* the stack keeps its MaxDepth innermost frames
PushFrame(stack, f) ==
    IF Len(stack) < MaxDepth THEN Append(stack, f) ELSE Append(Tail(stack), f)

\* mutant: the target table of a materialized view is not looked at
DependencyReadyIgnoringTarget(kind) == kind # "missing"
\* lines 434-441: the table exists and, if it is a materialized view, has its target
DependencyReady(kind) == kind \in {"table", "view"}

\* a call checkDependencies(table_id) on a catalog drawn from the bounded sets
DepInit ==
    /\ StorageIdle
    /\ CsvIdle
    /\ tables \in [TableIds -> TableKinds]
    /\ dependencies \in [{RootTable} \cup TableIds -> {SortedSeq(S) : S \in SUBSET TableIds}]
    /\ dep_stack = <<Frame(RootTable)>>
    /\ dep_result = "running"

\* the innermost call and the dependencies it iterates over
TopFrame == dep_stack[Len(dep_stack)]
TopDependencies == dependencies[TopFrame.table_id]
\* the call has not returned: "recursing" once the chain of calls has repeated a table
DepRunning == dep_result \in {"running", "recursing"} /\ dep_stack # <<>>

\* lines 428-429 and 448: the dependencies are empty, or the loop has passed the last
\* one: return true; the caller goes on with its next dependency (line 444)
CheckDependenciesReturnsTrue ==
    /\ DepRunning
    /\ TopFrame.next > Len(TopDependencies)
    /\ IF Len(dep_stack) = 1
       THEN dep_stack' = <<>> /\ dep_result' = "true"
       ELSE /\ dep_stack' = [SubSeq(dep_stack, 1, Len(dep_stack) - 1)
                                EXCEPT ![Len(dep_stack) - 1].next = @ + 1]
            /\ dep_result' = dep_result
    /\ UNCHANGED <<storageV, csvV, tables, dependencies>>

\* lines 434-441: the table is missing or the view has no target: return false, and
\* every caller returns false in its turn (lines 444-445)
CheckDependenciesReturnsFalse ==
    /\ DepRunning
    /\ TopFrame.next <= Len(TopDependencies)
    /\ ~DependencyReady(tables[TopDependencies[TopFrame.next]])
    /\ dep_stack' = <<>>
    /\ dep_result' = "false"
    /\ UNCHANGED <<storageV, csvV, tables, dependencies>>

\* line 444: checkDependencies(db_tab), the recursive call
CheckDependenciesRecurses ==
    /\ DepRunning
    /\ TopFrame.next <= Len(TopDependencies)
    /\ DependencyReady(tables[TopDependencies[TopFrame.next]])
    /\ dep_stack' = PushFrame(dep_stack, Frame(TopDependencies[TopFrame.next]))
    /\ dep_result' = IF Len(dep_stack) < MaxDepth THEN dep_result ELSE "recursing"
    /\ UNCHANGED <<storageV, csvV, tables, dependencies>>

DepNext ==
    \/ CheckDependenciesReturnsTrue
    \/ CheckDependenciesReturnsFalse
    \/ CheckDependenciesRecurses

DepSpec == DepInit /\ [][DepNext]_vars
\* the thread that runs the call takes its steps
DepLiveSpec == DepSpec /\ WF_vars(DepNext)

\* ------------------------------------- fileSegmentationEngineCSV2Impl
\* the bytes of the input: a double quote, a line feed, a carriage return, any other
DQUOTE == "dquote"
LF == "lf"
CR == "cr"
Bytes == {DQUOTE, LF, CR, "other"}
Inputs == UNION {[1..n -> Bytes] : n \in 0..MaxInput}

\* *pos, for pos an offset from in.position() at the call
At(p) == in_data[p + 1]
\* loadAtPosition(in, memory, pos): true while the input has a byte at pos, the next
\* buffer being loaded when pos is at the end of the current one
LoadAtPosition(p) == p < Len(in_data)
\* in.buffer().end() for the buffer that holds pos, buffers being of buffer_size bytes
BufferEnd(p) == Min(((p \div csv_call.buffer_size) + 1) * csv_call.buffer_size, Len(in_data))
\* find_first_symbols<...>(pos, end): the first offset from p that holds one of the
\* symbols, or e
RECURSIVE FindFirstSymbols(_, _, _)
FindFirstSymbols(symbols, p, e) ==
    IF p >= e THEN e
    ELSE IF At(p) \in symbols THEN p
    ELSE FindFirstSymbols(symbols, p + 1, e)

\* lines 523-524: if (max_rows && (max_rows < min_rows)) max_rows = min_rows
MaxRows == IF csv_call.max_rows # 0 /\ csv_call.max_rows < csv_call.min_rows
           THEN csv_call.min_rows ELSE csv_call.max_rows

\* mutant: the double quote is not among the symbols looked for outside quotes
FieldSymbolsWithoutQuote == {CR, LF}
\* line 546: find_first_symbols<'"', '\r', '\n'>
FieldSymbols == {DQUOTE, CR, LF}

\* lines 577-578: the segment is complete
EnoughData(rows, bytes) ==
    rows >= csv_call.min_rows /\ (bytes >= csv_call.min_bytes \/ rows = MaxRows)

\* lines 528-543, one iteration inside quotes: the new pos and quotes
QuotedIteration ==
    LET p1 == FindFirstSymbols({DQUOTE}, pos, BufferEnd(pos))
    IN IF p1 = BufferEnd(pos) THEN [pos |-> p1, quotes |-> TRUE]
       ELSE IF LoadAtPosition(p1 + 1) /\ At(p1 + 1) = DQUOTE
       THEN [pos |-> p1 + 2, quotes |-> TRUE]
       ELSE [pos |-> p1 + 1, quotes |-> FALSE]

\* lines 546-574, one iteration outside quotes: the new pos and quotes, and whether
\* the iteration reaches line 576 (a row is counted)
FieldIteration ==
    LET p1 == FindFirstSymbols(FieldSymbols, pos, BufferEnd(pos))
    IN IF p1 = BufferEnd(pos) THEN [pos |-> p1, quotes |-> FALSE, row |-> FALSE]
       ELSE IF At(p1) = DQUOTE THEN [pos |-> p1 + 1, quotes |-> TRUE, row |-> FALSE]
       ELSE IF At(p1) = LF
       THEN [pos |-> IF LoadAtPosition(p1 + 1) /\ At(p1 + 1) = CR THEN p1 + 2 ELSE p1 + 1,
             quotes |-> FALSE, row |-> TRUE]
       ELSE IF At(p1) = CR
       THEN IF csv_call.allow_cr_end_of_line
            THEN [pos |-> p1 + 1, quotes |-> FALSE, row |-> FALSE]
            ELSE IF LoadAtPosition(p1 + 1) /\ At(p1 + 1) = LF
            THEN [pos |-> p1 + 2, quotes |-> FALSE, row |-> TRUE]
            ELSE [pos |-> p1 + 1, quotes |-> FALSE, row |-> FALSE]
       ELSE [pos |-> p1, quotes |-> FALSE, row |-> TRUE]

\* a call of the engine on an input and arguments drawn from the bounded sets;
\* lines 518-521
CsvInit ==
    /\ StorageIdle
    /\ DepIdle
    /\ in_data \in Inputs
    /\ csv_call \in [min_bytes : {0, MaxInput}, min_rows : {1, MIN_ROWS},
                      max_rows : {0, 1}, allow_cr_end_of_line : BOOLEAN,
                      buffer_size : {1, 2, MaxInput + 1}]
    /\ pos = 0
    /\ quotes = FALSE
    /\ need_more_data = TRUE
    /\ number_of_rows = 0
    /\ pc_csv = "loop"
    /\ row_ends = {}

\* line 526, the loop goes on, and lines 528-543
CsvQuotedIteration ==
    /\ pc_csv = "loop"
    /\ LoadAtPosition(pos) /\ need_more_data
    /\ quotes
    /\ pos' = QuotedIteration.pos
    /\ quotes' = QuotedIteration.quotes
    /\ UNCHANGED <<storageV, depV, in_data, csv_call, need_more_data, number_of_rows,
                   pc_csv, row_ends>>

\* line 526, the loop goes on, and lines 546-579
CsvFieldIteration ==
    /\ pc_csv = "loop"
    /\ LoadAtPosition(pos) /\ need_more_data
    /\ ~quotes
    /\ pos' = FieldIteration.pos
    /\ quotes' = FieldIteration.quotes
    /\ IF FieldIteration.row
       THEN /\ number_of_rows' = number_of_rows + 1
            /\ need_more_data' = ~EnoughData(number_of_rows + 1, FieldIteration.pos)
            /\ row_ends' = row_ends \cup {FieldIteration.pos}
       ELSE UNCHANGED <<number_of_rows, need_more_data, row_ends>>
    /\ UNCHANGED <<storageV, depV, in_data, csv_call, pc_csv>>

\* line 526, the loop ends, and lines 583-584: the pair returned is
\* <<LoadAtPosition(pos), number_of_rows>>
CsvReturn ==
    /\ pc_csv = "loop"
    /\ ~(LoadAtPosition(pos) /\ need_more_data)
    /\ pc_csv' = "done"
    /\ UNCHANGED <<storageV, depV, in_data, csv_call, pos, quotes, need_more_data,
                   number_of_rows, row_ends>>

CsvNext == CsvQuotedIteration \/ CsvFieldIteration \/ CsvReturn

CsvSpec == CsvInit /\ [][CsvNext]_vars

\* ------------------------------------------------- properties
TeardownSteps == {"sd_disc", "sd_pop", "sd_take", "done"}
DeactivationOrder == <<"conn", "stream", "stop", "loop">>

\* C1: shutdown() deactivates the connection task, then the streaming task (no run of
\* streamingToViewsFunc is in progress from then on), then sets the loop state to STOP
\* and deactivates the looping task; unsubscribe, disconnect and the removal of the
\* buffers start only after all of these have completed.
C1_ShutdownOrder ==
    /\ \E k \in 0..Len(DeactivationOrder) : sd_log = SubSeq(DeactivationOrder, 1, k)
    /\ Len(sd_log) >= 2 => pc_stream = "idle" /\ ~active["stream"]
    /\ pc_sd \in TeardownSteps \cup {"sd_unsub"} => sd_log = DeactivationOrder
    /\ pc_sd \in TeardownSteps =>
          subscribed \subseteq 1..num_created_consumers /\ ~active["conn"]

\* C1 witness: the teardown has started after the three deactivations
C1_Witness == pc_sd = "sd_disc" /\ sd_log = DeactivationOrder /\ num_created_consumers > 0

\* C2 (as claimed): no step of shutdown() unsubscribes a buffer or removes one from the
\* pool while the looping function is executing.
C2_NoTeardownWhileLooping ==
    [][(pc_sd' # pc_sd /\ (subscribed' # subscribed \/ Len(buffers') < Len(buffers)))
          => pc_loop = "idle"]_vars

\* C3 (as claimed): once shutdown_called is set, no run of connectionFunc leaves the
\* connection task scheduled again.
C3_NoRetryAfterShutdown ==
    [][(shutdown_called /\ pc_conn = "run" /\ pc_conn' = "idle") => ~sched'["conn"]]_vars

\* C4: until shutdown() removes its first buffer, leased buffers plus free buffers equal
\* num_created_consumers, which is at most the configured number of consumers.
C4_PoolConservation ==
    sd_i = 0 =>
       /\ Len(buffers) + SumOver([p \in Pipes |-> HeldCount(p)], Pipes)
             = num_created_consumers
       /\ num_created_consumers <= NumConsumers

\* C4 witness: a buffer is leased to the streaming pass, another pipeline is running
C4_Witness ==
    /\ pc_st = "started" /\ sd_i = 0
    /\ HeldCount("stream") > 0
    /\ Len(buffers) < num_created_consumers

\* C5: no buffer is at once free and leased, and no buffer is leased twice.
C5_ExclusiveLease == \A b \in Buffers : FreeCount(b) + Leases(b) <= 1

\* C5 witness: a source of a direct read asks for a buffer while the streaming pass
\* holds one
C5_Witness ==
    \E r \in Readers, b \in Buffers :
       /\ held["stream"][b] = 1
       /\ rd[r].pc = "p_run" /\ pend[r] > 0

\* C6 (as claimed): loop state RUN implies an active reader or a streaming cycle in
\* progress.
C6_RunningImpliesUse == loop_state = RUN => readers_count > 0 \/ pc_stream # "idle"

\* C6 (amended): whenever the loop state changes to RUN, a direct read is being started
\* or is active, or a streaming cycle is in progress; the state may stay RUN after
\* that until the streaming task's idle check.
C6_StartedByUse ==
    [][(loop_state' = RUN /\ loop_state # RUN)
          => \/ readers_count' > 0
             \/ \E r \in Readers : rd[r].pc = "r_build"
             \/ pc_stream' # "idle"]_vars

\* C6 witness: the loop has been started for a direct read, no cycle in progress
C6_Witness == loop_state = RUN /\ loop_running /\ readers_count > 0 /\ pc_stream = "idle"

\* C7: a loop that is running with no reader, outside a streaming cycle and before
\* shutdown, has its state set to STOP by the end of the next run of the streaming
\* task, unless a reader becomes active or shutdown is signaled before.
C7_IdleLoopStopped ==
    [][(pc_stream # "idle" /\ pc_stream' = "idle") => ~(idleLoop /\ idleLoop')]_vars

\* C7 witness: an idle running loop has been seen and the run is at its idle check
C7_Witness == idleLoop /\ pc_stream = "e_stop" /\ loop_state = RUN

\* C8: after N consecutive back-off passes the delay is min(500 * 2^N, 8000); a pass
\* that does not back off resets it (N = 0). nBackoff = MaxBackoff stands for
\* N >= MaxBackoff.
C8_BackoffLaw ==
    milliseconds_to_wait = Min(RESCHEDULE_MS * Pow2(nBackoff), BACKOFF_TRESHOLD)

\* C8 witness: the threshold has been reached and a further pass has backed off
C8_Witness == nBackoff = MaxBackoff /\ milliseconds_to_wait = BACKOFF_TRESHOLD

\* the outcome of the read() call reader r is in
ReadRejected(r) == rd[r].pc = "r_not_allowed"

\* C9 (as claimed): a read() that finds mv_attached set fails with QUERY_NOT_ALLOWED,
\* for either value of the setting and any number of created consumers.
C9_ViewsAttachedRejected ==
    \A r \in Readers : rd[r].pc # "idle" /\ rd[r].mv => ReadRejected(r)

\* C9 (amended): it fails with QUERY_NOT_ALLOWED when at least one consumer has been
\* created; with no consumer created it returns an empty pipe.
C9_ViewsAttachedRejectedIfConsumers ==
    \A r \in Readers :
       rd[r].pc # "idle" /\ rd[r].mv =>
          IF num_created_consumers > 0 THEN ReadRejected(r) ELSE rd[r].pc = "r_empty"

\* C9 witness: rejected with the setting enabled
C9_Witness == \E r \in Readers : ReadRejected(r) /\ rd[r].mv /\ rd[r].setting

\* C10 (as claimed): a read() without the direct-select setting fails with
\* QUERY_NOT_ALLOWED in every state.
C10_NoOptInRejected ==
    \A r \in Readers : rd[r].pc # "idle" /\ ~rd[r].setting => ReadRejected(r)

\* C10 (amended): it fails with QUERY_NOT_ALLOWED when at least one consumer has been
\* created; with no consumer created it returns an empty pipe.
C10_NoOptInRejectedIfConsumers ==
    \A r \in Readers :
       rd[r].pc # "idle" /\ ~rd[r].setting =>
          IF num_created_consumers > 0 THEN ReadRejected(r) ELSE rd[r].pc = "r_empty"

\* C10 witness: rejected without the setting although no view is attached
C10_Witness == \E r \in Readers : ReadRejected(r) /\ ~rd[r].mv /\ ~rd[r].setting

\* what a call of read() may touch besides its own locals
TableState == <<connected, shutdown_called, num_created_consumers, buffers, semaphore,
                subscribed, pend, take, held, readers_count, mv_attached,
                milliseconds_to_wait, loop_state, loop_running, active, sched,
                task_mutex, loop_mutex>>
\* a call of read(), locals x, made with at least one consumer and without the
\* direct-select setting or with views attached
PreconditionViolated(x) ==
    x.pc # "idle" /\ num_created_consumers > 0 /\ (~x.setting \/ x.mv)

\* C11: every step of a read() call whose precondition is violated (direct select not
\* enabled, or views attached) leaves the table state as it was: loop state, task
\* activation and schedule, connection, readers_count, the buffer pool and the
\* mutexes; the call ends in QUERY_NOT_ALLOWED.
C11_FailedReadNoEffect ==
    [][\A r \in Readers :
          (rd'[r] # rd[r] /\ (PreconditionViolated(rd[r]) \/ PreconditionViolated(rd'[r])))
             => /\ TableState' = TableState
                /\ rd'[r].pc \in {"r_not_allowed", "idle"}]_vars

\* C11 witness: a rejected call while the loop is running for the streaming pass
C11_Witness ==
    \E r \in Readers : ReadRejected(r) /\ loop_state = RUN /\ loop_running
                          /\ pc_stream = "stv_exec"

\* C12: when read() returns a pipe, it has num_created_consumers sources, and if
\* loopRunning() was false and the connection up, the loop state is RUN and the looping
\* task is activated and scheduled.
C12_ReadStartsLoop ==
    [][\A r \in Readers :
          (rd[r].pc = "r_build" /\ rd'[r].pc = "p_run")
             => /\ pend'[r] = num_created_consumers
                /\ (~loop_running /\ connected)
                      => loop_state' = RUN /\ active'["loop"] /\ sched'["loop"]]_vars

\* C12 witness: read() has returned its sources and started the loop
C12_Witness ==
    \E r \in Readers :
       /\ rd[r].pc = "p_run" /\ pend[r] = num_created_consumers /\ pend[r] > 0
       /\ loop_state = RUN /\ sched["loop"] /\ ~loop_running

\* shutdown() is inside popReadBuffer(), timeout zero, and no buffer is free
ZeroTimeoutOnEmptyPool ==
    pc_sd = "sd_pop" /\ sd_i < num_created_consumers /\ semaphore = 0 /\ Len(buffers) = 0

\* C13 (as claimed): a popReadBuffer call with timeout zero that finds no free buffer
\* returns at once; the caller (shutdown(), line 365) can take its next step.
C13_ZeroTimeoutReturns == ZeroTimeoutOnEmptyPool => ENABLED ShutdownPopWait

\* C13 (amended): a popReadBuffer call with timeout zero that finds no free buffer
\* blocks, the caller takes no step; a source that waits with a positive timeout
\* while the semaphore is at zero can return with nullptr.
C13_ZeroTimeoutBlocks ==
    /\ ZeroTimeoutOnEmptyPool => ~ENABLED ShutdownPopWait
    /\ \A p \in Pipes :
          (PipeRunning(p) /\ pend[p] > 0 /\ semaphore = 0) => ENABLED PopTimeout(p)

\* C13 witness: shutdown() waits in popReadBuffer() while a direct read holds the buffers
C13_Witness ==
    ZeroTimeoutOnEmptyPool /\ \E r \in Readers : HeldCount(r) = num_created_consumers

\* C14: a popReadBuffer call that returns nullptr found the semaphore at zero and leaves
\* the free collection, the semaphore and the leases unchanged; a call with timeout
\* zero returns only with a buffer removed from the free collection.
C14_TimeoutLeavesPool ==
    [][/\ \A p \in Pipes :
            (pend'[p] < pend[p] /\ take'[p] = take[p])
               => semaphore = 0 /\ UNCHANGED <<buffers, semaphore, held>>
       /\ sd_i' = sd_i + 1 => Len(buffers') = Len(buffers) - 1]_vars

\* C14 witness: a source has timed out (it runs without a buffer) while another
\* pipeline holds the buffers
C14_Witness ==
    \E r \in Readers :
       /\ rd[r].pc = "p_run" /\ pend[r] = 0 /\ take[r] = 0
       /\ HeldCount(r) < num_created_consumers
       /\ HeldCount("stream") > 0 /\ semaphore = 0

\* a thread waiting on the semaphore with a count above zero proceeds
WakeUp == (\E p \in Pipes : PopSemaphore(p)) \/ ShutdownPopWait
FairSpec == Spec /\ WF_vars(WakeUp)

\* some caller is inside popReadBuffer, before the semaphore
Waiting ==
    \/ \E p \in Pipes : PipeRunning(p) /\ pend[p] > 0
    \/ pc_sd = "sd_pop" /\ sd_i < num_created_consumers
\* number of callers past the semaphore that have not yet taken their buffer
Claims == SumOver(take, Pipes) + (IF pc_sd = "sd_take" THEN 1 ELSE 0)

\* C15: while a caller waits in popReadBuffer and a buffer of the free collection is
\* not yet claimed (it has been pushed), some waiting caller passes the semaphore and
\* obtains a buffer; no release is lost.
C15_ReleaseWakesWaiter ==
    (Waiting /\ Len(buffers) > Claims) ~> (Claims > 0)

\* C15 witness: a source of a direct read waits while the streaming pass holds the
\* buffers, which are then pushed back
C15_Witness ==
    \E r \in Readers :
       /\ rd[r].pc = "p_run" /\ pend[r] > 0
       /\ pc_stream \in {"s_stop", "s_loop", "s_end"}
       /\ Len(buffers) > Claims /\ semaphore > 0 /\ readers_count > 0
       /\ pass.kind \notin SkipKinds \cup {"none", "deps_failed"}

\* the step in which streamToViews returns to streamingToViewsFunc
StreamToViewsReturns == pc_stream = "stv_check" /\ pc_stream' # "stv_check"

\* C16: a pass that finds the connection down after its pipeline has run, with
\* shutdown not signaled and the reconnect failing, returns true (the delay backs off,
\* the run goes to stopLoopIfNoReaders), makes no iterateLoop call and does not
\* restart the loop.
C16_FailedReconnectBacksOff ==
    [][(StreamToViewsReturns /\ ~connected /\ ~shutdown_called /\ ~connected')
          => /\ pass'.ret /\ pass'.iter = 0
             /\ pc_stream' = "s_stop"
             /\ milliseconds_to_wait' = Backoff(milliseconds_to_wait)
             /\ UNCHANGED <<loop_state, active, sched>>]_vars

\* C16 witness: the pass has returned after a failed reconnect
C16_Witness ==
    pc_stream = "s_stop" /\ pass.kind = "down" /\ pass.ret /\ ~connected /\ loop_state = STOP

\* C17 (as claimed): a pass that ends with the connection available returns true
\* exactly when every source's queue is empty.
C17_BackoffIffAllEmpty ==
    pass.kind \in {"up", "restored"} => (pass.ret <=> pass.empties = num_created_consumers)

\* C17 (amended): a pass that finds the connection up returns true exactly when every
\* source's queue is empty; a pass that restored the connection returns false whatever
\* the queues hold; a pass that returns false has restarted the loop and reset the
\* delay, one that returns true has not restarted the loop.
C17_BackoffIffAllEmptyWhenUp ==
    [][StreamToViewsReturns
          => /\ connected => (pass'.ret <=> pass'.empties = num_created_consumers)
             /\ (~connected /\ connected') => ~pass'.ret
             /\ pass'.ret => pc_stream' = "s_stop" /\ UNCHANGED <<loop_state, active, sched>>
             /\ ~pass'.ret => /\ loop_state' = RUN /\ active'["loop"] /\ sched'["loop"]
                              /\ milliseconds_to_wait' = RESCHEDULE_MS]_vars

\* C17 witness: the connection was restored, every queue is empty, the pass has
\* returned false and restarted the loop
C17_Witness ==
    /\ pass.kind = "restored" /\ ~pass.ret /\ pass.empties = num_created_consumers
    /\ loop_state = RUN /\ sched["loop"]

\* the step in which a run of connectionFunc returns
ConnectionFuncReturns == pc_conn = "run" /\ pc_conn' = "idle"

\* C18: a run of connectionFunc that ends with the connection still down leaves the
\* connection task scheduled again; a run that ends with the connection up does not.
C18_RetryUntilConnected ==
    [][ConnectionFuncReturns => (sched'["conn"] <=> ~connected')]_vars

\* C18 witness: the connection task is scheduled to retry, the broker being unreachable
C18_Witness ==
    /\ pc_conn = "idle" /\ active["conn"] /\ sched["conn"] /\ ~connected
    /\ pc_st = "started" /\ ~shutdown_called /\ pc_stream # "idle"

\* the step in which an exception reaches the catch block of streamingToViewsFunc
ExceptionCaught == pass'.kind = "exception" /\ pass.kind # "exception"
\* the step in which a run of streamingToViewsFunc returns
StreamingReturns == pc_stream # "idle" /\ pc_stream' = "idle"

\* C19 (as claimed): an exception inside a streaming cycle is caught and the delay is
\* increased as for a pass that backs off.
C19_ExceptionBacksOff ==
    [][ExceptionCaught
          => /\ pc_stream' = "s_end"
             /\ milliseconds_to_wait' = Backoff(milliseconds_to_wait)]_vars

\* C19 (amended): an exception inside a streaming cycle is caught, the run goes on to
\* the end of streamingToViewsFunc with the delay left as it was, and every run that
\* returns with shutdown not signaled has scheduled the task again.
C19_ExceptionKeepsDelay ==
    [][/\ ExceptionCaught
          => pc_stream' = "s_end" /\ UNCHANGED <<milliseconds_to_wait, nBackoff>>
       /\ (StreamingReturns /\ ~shutdown_called) => sched'["stream"] /\ ~mv_attached']_vars

\* C19 witness: an exception has been caught in a run whose delay had backed off before
C19_Witness ==
    pass.kind = "exception" /\ pc_stream = "s_end" /\ milliseconds_to_wait > RESCHEDULE_MS

C21_ConnectFailureAtConstruction ==
    /\ [](/\ pc_st = "ctor_failed"
              => ~is_attach /\ ~connected /\ \A t \in Tasks : ~active[t] /\ ~sched[t]
          /\ (pc_st = "new" /\ ~connected) => is_attach
          /\ (pc_st = "creating" /\ ~connected)
                => is_attach /\ active["conn"] /\ (pc_conn = "run" \/ sched["conn"]))
    /\ [][/\ (pc_st = "new" /\ pc_st' # "new" /\ ~connected)
              => active'["conn"] /\ sched'["conn"]
          /\ (ConnectionFuncReturns /\ ~connected')
                => active'["conn"] /\ sched'["conn"]]_vars

\* C21 witness: attaching, the initial connect() has failed, startup() has activated the
\* connection task and a run of it is in progress with the connection never established
C21_Witness ==
    is_attach /\ pc_st = "creating" /\ ~connected /\ pc_conn = "run" /\ active["conn"]

\* C22: once shutdown_called is true it stays true; it is set by the first statement of
\* shutdown() and no step of the table resets it.
C22_ShutdownFlagMonotonic ==
    /\ [](pc_sd # "idle" => shutdown_called)
    /\ [][shutdown_called => shutdown_called']_vars

\* C22 witness: shutdown() has returned with the background tasks deactivated, the flag
\* is still set
C22_Witness == shutdown_called /\ pc_sd = "done" /\ sd_log = DeactivationOrder

\* a step of the streaming task (streamingToViewsFunc or streamToViews)
StreamingStep == pc_stream' # pc_stream
\* the step sets the loop state to STOP
LoopStopped == loop_state' = STOP /\ loop_state # STOP
\* the step deactivates the looping task
LoopingDeactivated == active["loop"] /\ ~active'["loop"]

\* C23 (as claimed): while a direct reader is active (readers_count > 0), no step of the
\* streaming task sets the loop state to STOP or deactivates the looping task.
C23_NoStopWhileReading ==
    [][(StreamingStep /\ readers_count > 0) => ~LoopStopped /\ ~LoopingDeactivated]_vars

\* the streaming task is inside stopLoopIfNoReaders, holding loop_mutex
InIdleCheck == pc_stream \in {"s_stop_l", "s_stop_w", "e_stop_l", "e_stop_w"}
\* it has found readers_count zero and has not yet written Loop::STOP
CheckedIdle == pc_stream \in {"s_stop_w", "e_stop_w"}
\* read() of reader r is past line 261, holding loop_mutex
InRead(r) == rd[r].pc \in {"r_deact", "r_reconnect", "r_build"}

\* C24 (as claimed): the reader count does not change, by incrementReader or by
\* decrementReader, while the streaming task holds the mutex of its idle check.
C24_ReaderCountExclusive == [][InIdleCheck => readers_count' = readers_count]_vars

\* C24 (amended): while the streaming task holds loop_mutex in stopLoopIfNoReaders, no
\* read() is between its lock and its return, so no reader starts (the count does not
\* grow); between a check that found the count zero and the write of STOP the count
\* stays zero and STOP is written; a reader may finish (decrementReader takes no
\* mutex) while the idle check holds the mutex before its check.
C24_ReaderStartExclusive ==
    [][/\ InIdleCheck
            => /\ loop_mutex = "stream"
               /\ \A r \in Readers : ~InRead(r) /\ ~InRead(r)'
               /\ readers_count' <= readers_count
       /\ CheckedIdle => readers_count = 0 /\ readers_count' = 0
       /\ (CheckedIdle /\ StreamingStep) => loop_state' = STOP]_vars

\* C24 witness: the check has found no reader and STOP is not yet written, while a
\* read() waits for loop_mutex at line 261
C24_Witness ==
    CheckedIdle /\ loop_state = RUN /\ \E r \in Readers : rd[r].pc = "r_lock"

\* the step in which streamToViews makes its queueEmpty checks and iterateLoop calls
\* (lines 596-602) and returns
AcknowledgmentStep == StreamToViewsReturns /\ pass'.iter > 0

\* C25 (as claimed): whenever streamToViews makes its queueEmpty checks and iterateLoop
\* calls, no run of the looping function is in progress.
C25_NoLoopDuringAck == [][AcknowledgmentStep => pc_loop = "idle"]_vars

\* the steps of each thread once it has started: a run of the streaming task, the
\* sources of a pipeline, shutdown(), a direct read and its pipeline
StreamingRun ==
    \/ StreamToViewsBegin \/ StreamToViewsExecuted \/ StreamToViewsDeactivated
    \/ StreamToViewsCheck \/ StreamingStopLock \/ StreamingStopRead \/ StreamingStop
    \/ StreamingEnd \/ StreamingIdleLock \/ StreamingIdleRead \/ StreamingIdleCheck
SourceRun == \E p \in Pipes : PopSemaphore(p) \/ PopTimeout(p) \/ PopTake(p)
ShutdownRun ==
    \/ \E t \in Tasks : ShutdownLock(t) \/ ShutdownDeactivate(t)
    \/ ShutdownStopLoop \/ ShutdownUnsubscribe \/ ShutdownDisconnect
    \/ ShutdownPopWait \/ ShutdownPopTake \/ ShutdownReturn
ReadRun ==
    \E r \in Readers : \/ ReadReturn(r) \/ ReadLock(r) \/ ReadDeactivated(r)
                        \/ ReadReconnect(r) \/ ReadBuild(r) \/ PushReadBuffer(r)
                        \/ ReadFinished(r)

\* every thread that can take a step takes one; a thread waiting for a mutex obtains it
\* if it is free again and again
LiveSpec ==
    /\ Spec
    /\ SF_vars(StreamingRun) /\ SF_vars(ShutdownRun)
    /\ WF_vars(SourceRun) /\ WF_vars(ReadRun)
    /\ WF_vars(LoopExit) /\ WF_vars(ConnectionFunc)

\* shutdown() holds task_mutex and waits for the streaming task to finish while the run
\* of that task is about to call deactivateTask(looping_task, false, true)
ShutdownWaitsForStreaming == pc_sd = "sd_stream_w" /\ pc_stream = "stv_exec"

\* C26 (as claimed): when shutdown() waits for the streaming task while that task calls
\* deactivateTask on the looping task, the streaming run completes and shutdown() goes
\* on to complete all three deactivations.
C26_ShutdownCompletes == ShutdownWaitsForStreaming ~> (sd_log = DeactivationOrder)

\* C27: every run of streamingToViewsFunc returns from its last statements (lines
\* 505-513), whatever path it took, and leaves the streaming task scheduled again
\* exactly when shutdown_called is not set at that point; a run has no step that waits
\* out a delay, it yields by returning.
C27_RunEndsByRescheduling ==
    [][/\ StreamingReturns
            => /\ pc_stream \in {"s_end", "e_stop_l", "e_stop_w"}
               /\ sched'["stream"] <=> ~shutdown_called
               /\ active'["stream"]
               /\ UNCHANGED milliseconds_to_wait
       /\ (pc_stream # "idle" /\ StreamingStep /\ ~StreamingReturns)
            => UNCHANGED <<sched["stream"], active["stream"]>>]_vars

\* C27 witness: a run that backed off up to the threshold has returned and left the
\* task scheduled
C27_Witness ==
    /\ pc_stream = "idle" /\ sched["stream"] /\ active["stream"] /\ ~shutdown_called
    /\ milliseconds_to_wait = BACKOFF_TRESHOLD

\* the buffers of the free collection
FreeSet(bufs) == {bufs[i] : i \in 1..Len(bufs)}
\* the step in which shutdown() returns
ShutdownReturns == pc_sd # "done" /\ pc_sd' = "done"

InStreamingSection ==
    pc_stream \in {"s_loop", "stv_exec", "stv_deact", "stv_check",
                   "s_stop", "s_stop_l", "s_stop_w"}

\* C29: mv_attached is set throughout the streaming section of a run and only in a run
\* that has entered it (up to line 505, which clears it); it is false in a run that
\* skipped the section, after line 505, also when the run caught an exception, and
\* whenever no run is in progress.
C29_ViewsAttachedOnlyWhileStreaming ==
    /\ InStreamingSection => mv_attached
    /\ mv_attached => (InStreamingSection \/ pc_stream = "s_end") /\ pass.kind \notin SkipKinds
    /\ pc_stream \in {"idle", "e_stop", "e_stop_l", "e_stop_w"} => ~mv_attached

\* C29 witness: a run has caught an exception and is past line 505, the flag is cleared
C29_Witness == pass.kind = "exception" /\ pc_stream = "e_stop" /\ ~mv_attached

\* the step in which a run of streamingToViewsFunc starts
StreamingStarts == pc_stream = "idle" /\ pc_stream' # "idle"
\* a step of, or during, a run that skipped the streaming section
SkippedCycle == pass.kind \in SkipKinds \/ pass'.kind \in SkipKinds

\* C30 (as claimed): a cycle that skipped the streaming section (no dependent views, or
\* the connection down with reconnect() failing) leaves the streaming task scheduled
\* again when it returns.
C30_SkippedCycleReschedules ==
    [][(StreamingReturns /\ pass.kind \in SkipKinds) => sched'["stream"]]_vars

\* C30 (amended): a run that finds no dependent views, or the connection down with
\* reconnect() failing, skips the streaming section: it makes no streaming pass (no
\* source is built, no buffer asked for), does not set mv_attached, leaves the delay as
\* it was, and when it returns the task is scheduled again exactly when
\* shutdown_called is not set.
C30_SkippedCycle ==
    [][/\ StreamingStarts
            => /\ pass'.kind \in SkipKinds <=> pc_stream' = "s_end"
               /\ ~connected' => pass'.kind \in SkipKinds
               /\ pass'.kind = "no_connection" => ~connected'
       /\ SkippedCycle
            => /\ ~mv_attached'
               /\ pc_stream' \in {"s_end", "e_stop", "e_stop_l", "e_stop_w", "idle"}
               /\ UNCHANGED <<milliseconds_to_wait, nBackoff>>
               /\ UNCHANGED <<pend["stream"], take["stream"], held["stream"]>>
               /\ pend["stream"] = 0 /\ HeldCount("stream") = 0
       /\ (StreamingReturns /\ pass.kind \in SkipKinds)
            => (sched'["stream"] <=> ~shutdown_called)]_vars

\* C30 witness: a run has found the connection down, reconnect() has failed and the
\* section is skipped, with a delay that had backed off before
C30_Witness ==
    /\ pass.kind = "no_connection" /\ pc_stream = "s_end" /\ ~connected
    /\ ~mv_attached /\ ~shutdown_called /\ milliseconds_to_wait > RESCHEDULE_MS

\* the step in which checkDependencies returns false inside the streaming loop
DependencyCheckFails == pass'.kind = "deps_failed" /\ pass.kind # "deps_failed"
\* a step of the rest of a run whose dependency check has failed
DependenciesFailed == pass.kind = "deps_failed" \/ pass'.kind = "deps_failed"

\* C31 (as claimed): when the dependency check fails in a streaming cycle, the cycle
\* stops without running a streaming pass for that iteration, raises no error, leaves
\* the backoff delay as it was, and the task is rescheduled.
C31_FailedDependenciesReschedule ==
    [][/\ DependenciesFailed
            => /\ pc_stream' \in {"s_end", "e_stop", "e_stop_l", "e_stop_w", "idle"}
               /\ pass'.kind # "exception"
               /\ UNCHANGED <<milliseconds_to_wait, nBackoff>>
       /\ (StreamingReturns /\ pass.kind = "deps_failed") => sched'["stream"]]_vars

\* C31 (amended): when checkDependencies returns false the run leaves the streaming
\* loop at once: no source is built and no buffer asked for in that iteration, the
\* catch block is not entered, the delay is left as it was, mv_attached is cleared
\* at the end of the run, and when the run returns the task is scheduled again
\* exactly when shutdown_called is not set.
C31_FailedDependenciesEndCycle ==
    [][/\ DependencyCheckFails
            => /\ pc_stream = "s_loop" /\ pc_stream' = "s_end"
               /\ ~shutdown_called
       /\ DependenciesFailed
            => /\ pc_stream' \in {"s_end", "e_stop", "e_stop_l", "e_stop_w", "idle"}
               /\ pass'.kind # "exception"
               /\ UNCHANGED <<milliseconds_to_wait, nBackoff>>
               /\ UNCHANGED <<pend["stream"], take["stream"], held["stream"]>>
               /\ pend["stream"] = 0 /\ HeldCount("stream") = 0
       /\ (StreamingReturns /\ pass.kind = "deps_failed")
            => /\ ~mv_attached'
               /\ sched'["stream"] <=> ~shutdown_called]_vars

\* C31 witness: checkDependencies has returned false in a run that had entered the
\* streaming section, with a delay that had backed off before
C31_Witness ==
    /\ pass.kind = "deps_failed" /\ pc_stream = "s_end" /\ mv_attached
    /\ ~shutdown_called /\ milliseconds_to_wait > RESCHEDULE_MS

\* the run is inside its streaming loop: at the while condition or inside a pass
InStreamingLoop == pc_stream \in {"s_loop", "stv_exec", "stv_deact", "stv_check"}
\* the run is inside stopLoopIfNoReaders, called before a break (lines 481 and 493)
InStopBeforeBreak == pc_stream \in {"s_stop", "s_stop_l", "s_stop_w"}

\* C33: a run of streamingToViewsFunc is inside its streaming loop only while the time
\* measured since start_time is within MAX_THREAD_WORK_DURATION_MS; a pass that ends
\* beyond the budget is followed by stopLoopIfNoReaders (Loop::STOP when it finds no
\* reader) and the end of the loop, never by another pass; and every pass after which
\* the loop goes on has made the measured time grow, so the passes of a run are
\* bounded in number.
C33_TimeBudgetEndsRun ==
    /\ [](InStreamingLoop => duration <= MAX_THREAD_WORK_DURATION_MS)
    /\ [][/\ (StreamToViewsReturns /\ duration' > MAX_THREAD_WORK_DURATION_MS)
               => pc_stream' = "s_stop"
          /\ (StreamToViewsReturns /\ pc_stream' = "s_loop")
               => duration' > duration /\ ~pass'.ret
          /\ InStopBeforeBreak => pc_stream' \in {"s_stop", "s_stop_l", "s_stop_w", "s_end"}
          /\ pc_stream = "s_stop_w" /\ pc_stream' = "s_end" => loop_state' = STOP]_vars

\* C33 witness: a pass that found more work (it returned false) has ended beyond the
\* budget while the loop runs with no reader, and the run is about to stop the loop
C33_Witness ==
    /\ pc_stream = "s_stop" /\ duration > MAX_THREAD_WORK_DURATION_MS
    /\ pass.kind = "up" /\ ~pass.ret /\ pass.empties = 0
    /\ readers_count = 0 /\ loop_state = RUN

\* C36: in every state the semaphore count plus the number of callers that have passed
\* the semaphore and not yet taken their buffer is at most the length of the free
\* collection: the count never exceeds the free buffers, and a caller past the
\* semaphore always finds an element to take with back() and pop_back().
C36_SemaphoreWithinFree ==
    /\ semaphore <= Len(buffers)
    /\ semaphore + Claims <= Len(buffers)
    /\ \A p \in Pipes : take[p] > 0 => Len(buffers) > 0
    /\ pc_sd = "sd_take" => Len(buffers) > 0

\* C36 witness: a source of a direct read has passed the semaphore, which is at zero,
\* and takes the only free buffer, after the streaming pass has held and returned it
C36_Witness ==
    \E r \in Readers :
       /\ take[r] = 1 /\ semaphore = 0 /\ Len(buffers) = 1
       /\ pass.kind = "up" /\ HeldCount("stream") = 0

\* the step in which read() returns its pipe after it had found the connection down
ReadReturnsAfterReconnect(r) == rd[r].pc = "r_build" /\ rd[r].down /\ rd'[r].pc = "p_run"

\* C37 (as claimed): a read() that has passed its checks and finds the connection down
\* sets Loop::STOP if the loop is running and calls reconnect(); when reconnect() fails
\* it throws CANNOT_CONNECT_NATS with no source built and the loop not started; when
\* reconnect() succeeds it returns its pipe with the loop started (state Loop::RUN).
C37_ReadReconnects ==
    [][\A r \in Readers :
          /\ (rd[r].pc = "r_lock" /\ rd'[r].pc # "r_lock" /\ ~connected)
                => /\ rd'[r].pc \in {"r_deact", "r_reconnect"}
                   /\ loop_running => loop_state' = STOP
          /\ (rd[r].pc = "r_reconnect" /\ rd'[r].pc = "r_no_connection")
                => /\ ~connected'
                   /\ UNCHANGED <<loop_state, active, sched, readers_count, pend, take, held>>
                   /\ pend[r] = 0 /\ loop_mutex' = "free"
          /\ (rd[r].pc = "r_reconnect" /\ rd'[r].pc = "r_build") => connected'
          /\ ReadReturnsAfterReconnect(r) => loop_state' = RUN]_vars

\* C37 (amended): a read() that has passed its checks and finds the connection down
\* sets Loop::STOP if the loop is running and calls reconnect(); when reconnect() fails
\* it throws CANNOT_CONNECT_NATS with no source built, no reader counted and the loop
\* left as it was; when reconnect() succeeds it builds its sources and returns its pipe,
\* and it starts the loop (Loop::RUN, looping task activated and scheduled) exactly
\* when it then finds the loop not running and the connection up; else it leaves the
\* loop state and the looping task as they are.
C37_ReadReconnectsAndStartsIdleLoop ==
    [][\A r \in Readers :
          /\ (rd[r].pc = "r_lock" /\ rd'[r].pc # "r_lock" /\ ~connected)
                => /\ rd'[r].pc \in {"r_deact", "r_reconnect"}
                   /\ loop_running => loop_state' = STOP
          /\ (rd[r].pc = "r_reconnect" /\ rd'[r].pc = "r_no_connection")
                => /\ ~connected'
                   /\ UNCHANGED <<loop_state, active, sched, readers_count, pend, take, held>>
                   /\ pend[r] = 0 /\ loop_mutex' = "free"
          /\ (rd[r].pc = "r_reconnect" /\ rd'[r].pc = "r_build") => connected'
          /\ ReadReturnsAfterReconnect(r)
                => /\ pend'[r] = num_created_consumers
                   /\ readers_count' = readers_count + 1
                   /\ IF ~loop_running /\ connected
                      THEN loop_state' = RUN /\ active'["loop"] /\ sched'["loop"]
                      ELSE UNCHANGED <<loop_state, active, sched>>]_vars

\* C37 witness: read() had found the connection down with the loop running and set
\* Loop::STOP, reconnect() has succeeded, and the loop has not left its run yet
C37_Witness ==
    \E r \in Readers :
       /\ rd[r].pc = "r_build" /\ rd[r].down /\ connected
       /\ loop_running /\ loop_state = STOP /\ loop_mutex = r

\* no read() is issued once shutdown() has returned
NoLateRead == ~(pc_sd = "done" /\ \E r \in Readers : rd[r].pc = "idle" /\ rd'[r].pc # "idle")
QuietNext == Next /\ NoLateRead
\* the behaviours in which no read() is issued after shutdown() has returned
QuietSpec == Init /\ [][QuietNext]_vars

\* C34 (as claimed): once shutdown() has returned, and with no read() issued afterwards,
\* no background task starts a run or becomes scheduled, none is executing, and the
\* loop state is not set to Loop::RUN.
C34_TasksQuietAfterShutdown ==
    /\ [](pc_sd = "done" => \A t \in Tasks : ~Executing(t))
    /\ [][pc_sd = "done"
            => /\ \A t \in Tasks : /\ Executing(t)' => Executing(t)
                                   /\ sched'[t] => sched[t]
               /\ loop_state' = RUN => loop_state = RUN]_vars

\* C35 (as claimed): every call of shutdown() returns, whatever the state it is called
\* in, a source of a direct read holding a leased buffer included.
C35_ShutdownTerminates == shutdown_called ~> (pc_sd = "done")

\* the part of C35 about the last loop of shutdown() (lines 364-365): once shutdown()
\* has reached its popReadBuffer() calls, it completes them and returns
ShutdownFinalLoopCompletes == (pc_sd = "sd_pop") ~> (pc_sd = "done")

\* the dependency relation: b is among getDependencies(a)
Depends(a, b) == \E i \in 1..Len(dependencies[a]) : dependencies[a][i] = b
\* the least set that holds S and the dependencies of its elements
RECURSIVE DependencyClosure(_)
DependencyClosure(S) ==
    LET N == S \cup {b \in TableIds : \E a \in S : Depends(a, b)}
    IN IF N = S THEN S ELSE DependencyClosure(N)
\* the tables reachable from t through the dependency relation, in one step or more
ReachableFrom(t) == DependencyClosure({b \in TableIds : Depends(t, b)})
\* no table is reachable from itself
Acyclic == \A t \in TableIds : t \notin ReachableFrom(t)
\* the table exists and is no materialized view without a target table
TableReady(t) == tables[t] # "missing" /\ tables[t] # "view_no_target"

\* C32: on a dependency graph without a cycle, the chain of calls of
\* checkDependencies never repeats a table, and the value the outermost call returns is
\* true exactly when every table reachable from the checked table through the
\* dependency relation exists and is no materialized view without a target table.
C32_CheckDependenciesResult ==
    Acyclic =>
       /\ dep_result # "recursing"
       /\ Len(dep_stack) <= MaxDepth
       /\ dep_result = "true" => \A t \in ReachableFrom(RootTable) : TableReady(t)
       /\ dep_result = "false" => \E t \in ReachableFrom(RootTable) : ~TableReady(t)

\* C32 witness: the call has returned true on a graph without a cycle in which a
\* materialized view depends on the checked table and a further table on that view
C32_Witness ==
    /\ Acyclic /\ dep_result = "true"
    /\ \E a, b \in TableIds :
          /\ a # b /\ Depends(RootTable, a) /\ Depends(a, b)
          /\ tables[a] = "view" /\ tables[b] = "table"

\* a chain of calls that has repeated a table never returns
RecursionNeverReturns == [][dep_result = "recursing" => dep_result' = "recursing"]_vars

\* C38 (as claimed): every call of checkDependencies returns, on every dependency graph
\* over finitely many tables, cyclic ones included.
C38_CheckDependenciesTerminates == <>(dep_result \in {"true", "false"})

\* the quoting of the input by itself: after the first k bytes the reader is outside a
\* quoted field ("out"), inside one ("in"), or inside one just after a double quote that
\* closes the field unless another double quote follows ("closing")
RECURSIVE QuoteState(_)
QuoteState(k) ==
    IF k = 0 THEN "out"
    ELSE LET before == QuoteState(k - 1)
             quote == in_data[k] = DQUOTE
         IN CASE before = "out" -> IF quote THEN "in" ELSE "out"
              [] before = "in" -> IF quote THEN "closing" ELSE "in"
              [] OTHER -> IF quote THEN "in" ELSE "out"
\* byte k of the input lies inside a double-quoted field
InsideQuotes(k) == QuoteState(k - 1) = "in"

\* C39: every row the engine counts ends with a line feed (with the carriage return
\* next to it, if any) that lies outside every double-quoted field, two consecutive
\* double quotes inside a field being an escaped quote; the number of rows returned is
\* the number of these row ends; and when the engine returns with input left, the
\* segment ends right after such a row end, outside quotes, with at least min_rows
\* rows.
C39_SegmentEndsAtRowBoundary ==
    /\ number_of_rows = Cardinality(row_ends)
    /\ \A p \in row_ends :
          /\ p >= 1 /\ p <= pos
          /\ QuoteState(p) = "out"
          /\ \/ in_data[p] = LF /\ ~InsideQuotes(p)
             \/ /\ in_data[p] = CR /\ p >= 2
                /\ in_data[p - 1] = LF /\ ~InsideQuotes(p - 1)
    /\ (pc_csv = "done" /\ LoadAtPosition(pos))
          => /\ pos \in row_ends
             /\ ~quotes /\ ~need_more_data
             /\ number_of_rows >= csv_call.min_rows

\* C39 witness: the engine has returned with input left, after a segment that holds a
\* line feed inside a quoted field, read from buffers of one byte
C39_Witness ==
    /\ pc_csv = "done" /\ LoadAtPosition(pos) /\ csv_call.buffer_size = 1
    /\ \E k \in 1..pos : in_data[k] = LF /\ InsideQuotes(k)

====
